---- MODULE Spec2Model ----
(***************************************************************************)
(* A model of the freebucket storage engine (src/src/storage.rs): the      *)
(* in-memory bucket index, the directory tree under the data root, and the *)
(* engine operations, sequentially (Spec) and as interleaved steps of      *)
(* concurrent calls (SpecConc).                                            *)
(*                                                                         *)
(* Strings are sequences of one-character strings, so that validation,     *)
(* key flattening and path splitting are computed as the code computes     *)
(* them.  A path is a sequence of components below the data root; the      *)
(* file system is a function from the existing paths to nodes.             *)
(***************************************************************************)
EXTENDS Integers, Sequences, FiniteSets, TLC

VARIABLES
    index,   \* StorageEngine.buckets: bucket name -> Bucket
    fs,      \* the directory tree under StorageEngine.root: path -> node
    last,    \* the last completed call of the sequential execution and its result
    clock,   \* what Utc::now() returns
    procs,   \* the concurrent calls in flight: per task, its call, position and locals
    lock     \* the RwLock around the index: its writer and its readers

vars == <<index, fs, last, clock, procs, lock>>

----------------------------------------------------------------------------
(* Bounds of the model.                                                    *)

MaxTime == 2      \* the clock runs from 1 to MaxTime
MaxFiles == 2     \* sequential puts stop once this many data files exist
NumTasks == 2     \* concurrent calls in flight
MaxListed == 3    \* objects stored when listing
MaxKeysAsked == 3 \* the greatest maxKeys a listing asks for

(* Program constants.                                                      *)
MinBucketNameLen == 3
MaxBucketNameLen == 63
MaxKeyLen == 1024

Times == 1..MaxTime
Tasks == 1..NumTasks

----------------------------------------------------------------------------
(* Strings.                                                                *)

LowerCase == {"a", "b", "c", "d", "e", "f", "g", "h", "i", "j", "k", "l", "m",
              "n", "o", "p", "q", "r", "s", "t", "u", "v", "w", "x", "y", "z"}
Digits == {"0", "1", "2", "3", "4", "5", "6", "7", "8", "9"}

StartsWith(s, p) == Len(s) >= Len(p) /\ SubSeq(s, 1, Len(p)) = p

\* The printable ASCII characters in byte order, from the space (32) on (the
\* backslash, 92, and the backtick, 96, are spelled out).
Ascii == <<" ", "!", "\"", "#", "$", "%", "&", "'", "(", ")", "*", "+",
           ",", "-", ".", "/", "0", "1", "2", "3", "4", "5", "6", "7",
           "8", "9", ":", ";", "<", "=", ">", "?", "@", "A", "B", "C",
           "D", "E", "F", "G", "H", "I", "J", "K", "L", "M", "N", "O",
           "P", "Q", "R", "S", "T", "U", "V", "W", "X", "Y", "Z", "[",
           "backslash", "]", "^", "_", "backtick", "a", "b", "c", "d", "e", "f", "g",
           "h", "i", "j", "k", "l", "m", "n", "o", "p", "q", "r", "s",
           "t", "u", "v", "w", "x", "y", "z", "{", "|", "}", "~">>
CharCodes == [c \in {Ascii[i] : i \in 1..Len(Ascii)} |->
                 31 + (CHOOSE i \in 1..Len(Ascii) : Ascii[i] = c)]
CharCode(c) == CharCodes[c]

\* str::cmp: byte-wise lexicographic order
StrLess(a, b) ==
    \/ Len(a) < Len(b) /\ SubSeq(b, 1, Len(a)) = a
    \/ \E i \in 1..Len(a) :
           /\ i <= Len(b)
           /\ SubSeq(a, 1, i - 1) = SubSeq(b, 1, i - 1)
           /\ CharCode(a[i]) < CharCode(b[i])

\* str::find: the byte offsets at which pat occurs in s (the empty pattern
\* occurs at every offset, first at 0)
Occurrences(s, pat) ==
    {pos \in 0..(Len(s) - Len(pat)) : SubSeq(s, pos + 1, pos + Len(pat)) = pat}
Min(S) == CHOOSE x \in S : \A y \in S : x <= y

\* key.replace('/', "__SLASH__")
SlashMarker == <<"_", "_", "S", "L", "A", "S", "H", "_", "_">>

RECURSIVE ReplaceSlash(_)
ReplaceSlash(s) ==
    IF s = <<>> THEN <<>>
    ELSE IF Len(s) = 1 THEN (IF s[1] = "/" THEN SlashMarker ELSE s)
    ELSE LET half == Len(s) \div 2
         IN  ReplaceSlash(SubSeq(s, 1, half)) \o ReplaceSlash(SubSeq(s, half + 1, Len(s)))

\* The components of a relative path string, as std::path::Path::components
\* yields them: split at '/', empty components and "." dropped, ".." kept.
RECURSIVE SplitAtSlash(_)
SplitAtSlash(s) ==
    LET slashes == {i \in 1..Len(s) : s[i] = "/"}
        first == CHOOSE i \in slashes : \A j \in slashes : i <= j
    IN  IF slashes = {} THEN <<s>>
        ELSE <<SubSeq(s, 1, first - 1)>> \o SplitAtSlash(SubSeq(s, first + 1, Len(s)))

Components(s) == SelectSeq(SplitAtSlash(s), LAMBDA c : c /= <<>> /\ c /= <<".">>)

\* The string names a directory whatever is on disk: it ends in '/' or in a
\* "." component (open(2) with O_CREAT fails on it with EISDIR/ENOENT).
NamesDirectory(s) ==
    \/ s = <<>>
    \/ s[Len(s)] = "/"
    \/ SplitAtSlash(s)[Len(SplitAtSlash(s))] = <<".">>

DotDot == <<".", ".">>

----------------------------------------------------------------------------
(* File names of the on-disk layout.                                       *)

ObjectsDir == <<"o", "b", "j", "e", "c", "t", "s">>
MetaDir == <<".", "m", "e", "t", "a">>
BucketMetaFile == <<".", "b", "u", "c", "k", "e", "t", "_", "m", "e", "t", "a",
                    ".", "j", "s", "o", "n">>
JsonExt == <<".", "j", "s", "o", "n">>

\* A lexical path (a PathBuf): its components from the data root, and whether
\* its string names a directory.
LexPath(cs, d) == [comps |-> cs, isdir |-> d]

bucket_path(name) == LexPath(<<name>>, FALSE)

object_path(bucket, key) ==
    LexPath(<<bucket, ObjectsDir>> \o Components(key), NamesDirectory(key))

object_meta_path(bucket, key) ==
    LexPath(<<bucket, MetaDir, ReplaceSlash(key) \o JsonExt>>, FALSE)

bucket_meta_path(name) == LexPath(<<name, BucketMetaFile>>, FALSE)

objects_root(name) == LexPath(<<name, ObjectsDir>>, FALSE)

\* Path::parent: the path without its last component.
ParentOf(lp) ==
    LexPath(SubSeq(lp.comps, 1, Len(lp.comps) - 1), FALSE)

----------------------------------------------------------------------------
(* The file system: std::fs over a POSIX directory tree.                   *)

DirNode == [kind |-> "dir", fmt |-> "-", val |-> <<>>]
RawFile(bytes) == [kind |-> "file", fmt |-> "raw", val |-> bytes]
JsonFile(f, v) == [kind |-> "file", fmt |-> f, val |-> v]

RootPath == <<>>
EmptyDisk == (RootPath :> DirNode)

IsDir(f, p) == p \in DOMAIN f /\ f[p].kind = "dir"
IsFile(f, p) == p \in DOMAIN f /\ f[p].kind = "file"
Parent(p) == SubSeq(p, 1, Len(p) - 1)
IsUnder(q, p) == Len(q) > Len(p) /\ SubSeq(q, 1, Len(p)) = p
Children(f, p) == {q \in DOMAIN f : Len(q) = Len(p) + 1 /\ IsUnder(q, p)}
FilesUnder(f, p) == {q \in DOMAIN f : IsUnder(q, p) /\ f[q].kind = "file"}

Fail(f) == [ok |-> FALSE, fs |-> f]
Done(f) == [ok |-> TRUE, fs |-> f]

\* Path resolution by the kernel: every component is looked up in a directory,
\* ".." steps to the parent.  The resolved path need not exist.
RECURSIVE Walk(_, _, _)
Walk(f, cur, cs) ==
    IF cs = <<>> THEN [ok |-> TRUE, path |-> cur]
    ELSE IF ~IsDir(f, cur) THEN [ok |-> FALSE, path |-> cur]
    ELSE Walk(f, IF Head(cs) = DotDot THEN Parent(cur) ELSE Append(cur, Head(cs)),
              Tail(cs))

Resolve(f, lp) == Walk(f, RootPath, lp.comps)

\* Path::exists, Path::is_dir
path_exists(f, lp) ==
    LET r == Resolve(f, lp)
    IN  r.ok /\ r.path \in DOMAIN f /\ (lp.isdir => IsDir(f, r.path))

path_is_dir(f, lp) ==
    LET r == Resolve(f, lp) IN r.ok /\ IsDir(f, r.path)

\* fs::create_dir_all: every missing ancestor is made, an existing directory
\* is accepted, a file in the way is an error.
RECURSIVE MkdirFrom(_, _, _)
MkdirFrom(f, cs, i) ==
    IF i > Len(cs) THEN Done(f)
    ELSE LET r == Walk(f, RootPath, SubSeq(cs, 1, i))
         IN  IF ~r.ok THEN Fail(f)
             ELSE IF r.path \in DOMAIN f
                  THEN IF f[r.path].kind = "dir" THEN MkdirFrom(f, cs, i + 1)
                       ELSE Fail(f)
             ELSE MkdirFrom(f @@ (r.path :> DirNode), cs, i + 1)

create_dir_all(f, lp) == MkdirFrom(f, lp.comps, 1)

PutNode(f, p, node) == [q \in DOMAIN f \cup {p} |-> IF q = p THEN node ELSE f[q]]

\* File::create + write_all, fs::write: the file is created or replaced whole.
\* A path naming a directory, a missing parent or a directory in the way fail.
write_file(f, lp, node) ==
    LET r == Resolve(f, lp)
    IN  IF \/ lp.isdir
           \/ lp.comps = <<>>
           \/ lp.comps[Len(lp.comps)] = DotDot
           \/ ~r.ok
           \/ ~IsDir(f, Parent(r.path))
           \/ IsDir(f, r.path)
        THEN Fail(f)
        ELSE Done(PutNode(f, r.path, node))

\* fs::read, fs::read_to_string: [ok, node]
read_file(f, lp) ==
    LET r == Resolve(f, lp)
    IN  IF r.ok /\ ~lp.isdir /\ IsFile(f, r.path)
        THEN [ok |-> TRUE, node |-> f[r.path]]
        ELSE [ok |-> FALSE, node |-> DirNode]

Without(f, gone) == [q \in DOMAIN f \ gone |-> f[q]]

\* fs::remove_file
remove_file(f, lp) ==
    LET r == Resolve(f, lp)
    IN  IF r.ok /\ ~lp.isdir /\ IsFile(f, r.path)
        THEN Done(Without(f, {r.path}))
        ELSE Fail(f)

\* fs::read_dir(..).count(): [ok, count]
read_dir_count(f, lp) ==
    LET r == Resolve(f, lp)
    IN  IF r.ok /\ IsDir(f, r.path)
        THEN [ok |-> TRUE, count |-> Cardinality(Children(f, r.path))]
        ELSE [ok |-> FALSE, count |-> 0]

\* A remove_dir that takes a directory together with what it holds.
remove_dir_with_entries(f, lp) ==
    LET r == Resolve(f, lp)
    IN  IF r.ok /\ IsDir(f, r.path) /\ r.path /= RootPath
        THEN Done(Without(f, {r.path} \cup {q \in DOMAIN f : IsUnder(q, r.path)}))
        ELSE Fail(f)

\* fs::remove_dir: only an empty directory, never the data root
remove_dir(f, lp) ==
    LET r == Resolve(f, lp)
    IN  IF r.ok /\ IsDir(f, r.path) /\ Children(f, r.path) = {} /\ r.path /= RootPath
        THEN Done(Without(f, {r.path}))
        ELSE Fail(f)

\* fs::remove_dir_all: the directory and everything below it
remove_dir_all(f, lp) ==
    LET r == Resolve(f, lp)
    IN  IF r.ok /\ IsDir(f, r.path) /\ r.path /= RootPath
        THEN Done(Without(f, {r.path} \cup {q \in DOMAIN f : IsUnder(q, r.path)}))
        ELSE Fail(f)

----------------------------------------------------------------------------
(* Descriptors, content identity, results.                                 *)

\* models::Bucket
Bucket(name, created_at, region, object_count, total_size) ==
    [name |-> name, created_at |-> created_at, region |-> region,
     object_count |-> object_count, total_size |-> total_size]

\* models::ObjectMeta
ObjectMeta(key, bucket, size, content_type, etag, last_modified, metadata) ==
    [key |-> key, bucket |-> bucket, size |-> size, content_type |-> content_type,
     etag |-> etag, last_modified |-> last_modified, metadata |-> metadata]

\* SHA-256 as an ideal hash: the digest names the bytes it was computed from.
Sha256Hex(bytes) == <<"sha256-hex", bytes>>

\* format!("\"{}\"", hex::encode(hasher.finalize()))
ETagOf(bytes) == <<"\"", Sha256Hex(bytes), "\"">>

\* mime_guess::from_path(key).first_or_octet_stream(): by the extension of the
\* last component; the keys of the model carry the extension "txt" or none.
TxtExt == <<".", "t", "x", "t">>
JpgExt == <<".", "j", "p", "g">>
HasExtension(key, ext) ==
    /\ Len(key) > Len(ext)
    /\ SubSeq(key, Len(key) - Len(ext) + 1, Len(key)) = ext
    /\ key[Len(key) - Len(ext)] /= "/"
GuessContentType(key) ==
    IF HasExtension(key, TxtExt) THEN "text/plain"
    ELSE IF HasExtension(key, JpgExt) THEN "image/jpeg"
    ELSE "application/octet-stream"

\* The bytes of a file: an object file holds raw bytes; a JSON file's text is
\* kept parsed, and its bytes are abbreviated to the first one, '{' (123).
FileBytes(node) == IF node.fmt = "raw" THEN node.val ELSE <<123>>

NoBucket == Bucket(<<>>, 0, <<>>, 0, 0)
NoMeta == ObjectMeta(<<>>, <<>>, 0, "", <<>>, 0, {})

\* Result<T, AppError>: err is "Ok" or the error's kind.
Result(err, bucket, meta, bytes) ==
    [err |-> err, bucket |-> bucket, meta |-> meta, bytes |-> bytes]
Err(kind) == Result(kind, NoBucket, NoMeta, <<>>)
OkUnit == Result("Ok", NoBucket, NoMeta, <<>>)

\* An operation's outcome: the index and the disk it leaves, and its result.
Outcome(idx, f, res) == [index |-> idx, fs |-> f, res |-> res]

----------------------------------------------------------------------------
(* Byte counts and their rendering.  A u64 is kept as its digits in base   *)
(* 1024, least significant first ("limbs"), since 1024^4 and more do not   *)
(* fit the integers of the checker.                                        *)

LimbBase == 1024     \* the divisor of human_readable_size
NumLimbs == 7        \* 2^64 = 16 * 1024^6
TopLimbMax == 15     \* the most significant limb of a u64
MantissaBits == 53   \* of an f64
MaxUnit == 5         \* UNITS.len() - 1

\* The limbs of a byte count below 1024^3.
LimbsOf(n) ==
    <<n % LimbBase, (n \div LimbBase) % LimbBase, n \div (LimbBase * LimbBase),
      0, 0, 0, 0>>

\* v with the carries propagated upwards, c coming in: one limb more than v.
RECURSIVE Carried(_, _)
Carried(v, c) ==
    IF v = <<>> THEN <<c>>
    ELSE <<(v[1] + c) % LimbBase>> \o Carried(Tail(v), (v[1] + c) \div LimbBase)

\* The index of the most significant limb that is not 0 (0 for the number 0).
TopLimb(v) ==
    IF \A i \in 1..Len(v) : v[i] = 0 THEN 0
    ELSE CHOOSE i \in 1..Len(v) : v[i] /= 0 /\ \A j \in (i + 1)..Len(v) : v[j] = 0

BitLen(n) == IF n = 0 THEN 0 ELSE CHOOSE k \in 1..10 : 2^(k - 1) <= n /\ n < 2^k

\* bytes as f64: exact up to 53 significant bits; beyond, the bits below the
\* 53rd are rounded away, to nearest, ties to even.  The result has one limb
\* more than bytes.
as_f64(bytes) ==
    LET top == TopLimb(bytes)
        dropped == 10 * (top - 1) + BitLen(bytes[top]) - MantissaBits
        low2 == bytes[1] + LimbBase * bytes[2]
        low == low2 % 2^dropped
        above == (low2 \div 2^dropped) % 2
        half == 2^(dropped - 1)
        up == low > half \/ (low = half /\ above = 1)
        rounded == low2 - low + (IF up THEN 2^dropped ELSE 0)
    IN  IF top = 0 \/ dropped <= 0 THEN bytes \o <<0>>
        ELSE Carried([bytes EXCEPT ![1] = rounded % LimbBase,
                                   ![2] = rounded \div LimbBase], 0)

\* The loop with the test size > 1024.0 in place of size >= 1024.0.
UnitIndex_exclusive(size) ==
    LET top == TopLimb(size)
        power == top >= 2 /\ size[top] = 1 /\ \A j \in 1..(top - 1) : size[j] = 0
        u == IF power THEN top - 2 ELSE top - 1
    IN  IF top = 0 THEN 0 ELSE IF u > MaxUnit THEN MaxUnit ELSE u

\* while size >= 1024.0 && unit_idx < UNITS.len() - 1 { size /= 1024.0;
\* unit_idx += 1 }: the number of divisions made (each is exact).
UnitIndex(size) ==
    LET top == TopLimb(size)
    IN  IF top = 0 THEN 0 ELSE IF top - 1 > MaxUnit THEN MaxUnit ELSE top - 1

Units == <<<<"B">>, <<"K", "B">>, <<"M", "B">>, <<"G", "B">>, <<"T", "B">>,
           <<"P", "B">>>>
DigitChars == <<"0", "1", "2", "3", "4", "5", "6", "7", "8", "9">>

\* format!("{}", n)
RECURSIVE Decimal(_)
Decimal(n) ==
    IF n < 10 THEN <<DigitChars[n + 1]>>
    ELSE Decimal(n \div 10) \o <<DigitChars[(n % 10) + 1]>>

\* format!("{:.2}", h / 100): h hundredths
TwoPlaces(h) ==
    Decimal(h \div 100) \o <<".", DigitChars[((h \div 10) % 10) + 1], DigitChars[(h % 10) + 1]>>

\* 100 * v, one limb more than v
TimesHundred(v) == Carried([i \in 1..Len(v) |-> 100 * v[i]], 0)

\* The limbs of v from the (u + 1)st on, as a number: v divided by 1024^u,
\* rounded down.
Above(v, u) ==
    LET at(j) == IF j <= Len(v) THEN v[j] ELSE 0
    IN  at(u + 1) + LimbBase * at(u + 2) + LimbBase * LimbBase * at(u + 3)

\* {:.2} of size / 1024^u, in hundredths: the decimal expansion of the f64 is
\* rounded to nearest, a tie to the even digit.
Hundredths(size, u) ==
    LET p == TimesHundred(size)
        floor == Above(p, u)
        lower_zero == \A j \in 1..(u - 1) : p[j] = 0
        up == \/ p[u] > LimbBase \div 2
              \/ p[u] = LimbBase \div 2 /\ (~lower_zero \/ floor % 2 = 1)
    IN  IF up THEN floor + 1 ELSE floor

\* human_readable_size
human_readable_size(bytes) ==
    LET size == as_f64(bytes)
        unit_idx == UnitIndex(size)
    IN  IF unit_idx = 0 THEN Decimal(bytes[1]) \o <<" ">> \o Units[1]
        ELSE TwoPlaces(Hundredths(size, unit_idx)) \o <<" ">> \o Units[unit_idx + 1]

----------------------------------------------------------------------------
(* Statistics.                                                             *)

RECURSIVE SumSizes(_, _)
SumSizes(f, ps) ==
    IF ps = {} THEN 0
    ELSE LET p == CHOOSE q \in ps : TRUE
         IN  Len(FileBytes(f[p])) + SumSizes(f, ps \ {p})

\* dir_stats: the files below dir, counted and their sizes summed; (0, 0) when
\* the directory cannot be read.
dir_stats(f, lp) ==
    LET r == Resolve(f, lp)
    IN  IF r.ok /\ IsDir(f, r.path)
        THEN [count |-> Cardinality(FilesUnder(f, r.path)),
              size |-> SumSizes(f, FilesUnder(f, r.path))]
        ELSE [count |-> 0, size |-> 0]

\* The index entry after update_bucket_stats has read the directory.
RefreshedBucket(b, st) ==
    [b EXCEPT !.object_count = st.count, !.total_size = st.size]

\* update_bucket_stats, given what dir_stats returned: the entry is updated and
\* persisted (a failed write is ignored); an unindexed bucket is left alone.
store_bucket_stats(idx, f, name, st) ==
    IF name \in DOMAIN idx
    THEN LET b == RefreshedBucket(idx[name], st)
         IN  [index |-> [idx EXCEPT ![name] = b],
              fs |-> write_file(f, bucket_meta_path(name), JsonFile("bucket", b)).fs]
    ELSE [index |-> idx, fs |-> f]

update_bucket_stats(idx, f, name) ==
    store_bucket_stats(idx, f, name, dir_stats(f, objects_root(name)))

----------------------------------------------------------------------------
(* Bucket operations.                                                      *)

\* validate_bucket_name without the check of the last character.
validate_bucket_name_open_end(name) ==
    IF Len(name) < MinBucketNameLen \/ Len(name) > MaxBucketNameLen
    THEN FALSE
    ELSE IF ~(\A i \in 1..Len(name) : name[i] \in LowerCase \cup Digits \cup {"-", "."})
    THEN FALSE
    ELSE IF name[1] = "-"
    THEN FALSE
    ELSE TRUE

validate_bucket_name(name) ==
    IF Len(name) < MinBucketNameLen \/ Len(name) > MaxBucketNameLen
    THEN FALSE
    ELSE IF ~(\A i \in 1..Len(name) : name[i] \in LowerCase \cup Digits \cup {"-", "."})
    THEN FALSE
    ELSE IF name[1] = "-" \/ name[Len(name)] = "-"
    THEN FALSE
    ELSE TRUE

\* create_bucket_meta
create_bucket_meta(name, now) == Bucket(name, now, <<"l", "o", "c", "a", "l">>, 0, 0)

\* create_bucket without the existence check: the directories are re-made
\* and the descriptor of an existing bucket is replaced.
create_bucket_replacing(idx, f, name, region, now) ==
    IF ~validate_bucket_name(name) THEN Outcome(idx, f, Err("InvalidBucketName"))
    ELSE
    LET d1 == create_dir_all(f, objects_root(name))
        d2 == create_dir_all(d1.fs, LexPath(<<name, MetaDir>>, FALSE))
        bucket == Bucket(name, now, region, 0, 0)
        w == write_file(d2.fs, bucket_meta_path(name), JsonFile("bucket", bucket))
    IN  IF ~d1.ok THEN Outcome(idx, d1.fs, Err("IoError"))
        ELSE IF ~d2.ok THEN Outcome(idx, d2.fs, Err("IoError"))
        ELSE IF ~w.ok THEN Outcome(idx, w.fs, Err("IoError"))
        ELSE Outcome((name :> bucket) @@ idx, w.fs,
                     Result("Ok", bucket, NoMeta, <<>>))

\* create_bucket
create_bucket(idx, f, name, region, now) ==
    IF ~validate_bucket_name(name) THEN Outcome(idx, f, Err("InvalidBucketName"))
    ELSE IF name \in DOMAIN idx THEN Outcome(idx, f, Err("BucketAlreadyExists"))
    ELSE
    LET d1 == create_dir_all(f, objects_root(name))
        d2 == create_dir_all(d1.fs, LexPath(<<name, MetaDir>>, FALSE))
        bucket == Bucket(name, now, region, 0, 0)
        w == write_file(d2.fs, bucket_meta_path(name), JsonFile("bucket", bucket))
    IN  IF ~d1.ok THEN Outcome(idx, d1.fs, Err("IoError"))
        ELSE IF ~d2.ok THEN Outcome(idx, d2.fs, Err("IoError"))
        ELSE IF ~w.ok THEN Outcome(idx, w.fs, Err("IoError"))
        ELSE Outcome(idx @@ (name :> bucket), w.fs,
                     Result("Ok", bucket, NoMeta, <<>>))

\* get_bucket
get_bucket(idx, name) ==
    IF name \in DOMAIN idx THEN Result("Ok", idx[name], NoMeta, <<>>)
    ELSE Err("BucketNotFound")

\* delete_bucket without the emptiness check: the tree is removed whatever
\* it holds.
delete_bucket_unchecked(idx, f, name) ==
    IF name \notin DOMAIN idx THEN Outcome(idx, f, Err("BucketNotFound"))
    ELSE
    LET rm == remove_dir_all(f, bucket_path(name))
    IN  IF ~rm.ok THEN Outcome(idx, f, Err("IoError"))
        ELSE Outcome([m \in DOMAIN idx \ {name} |-> idx[m]], rm.fs, OkUnit)

\* delete_bucket
delete_bucket(idx, f, name) ==
    IF name \notin DOMAIN idx THEN Outcome(idx, f, Err("BucketNotFound"))
    ELSE
    LET objects_dir == objects_root(name)
        n == read_dir_count(f, objects_dir)
        rm == remove_dir_all(f, bucket_path(name))
    IN  IF path_exists(f, objects_dir) /\ ~n.ok THEN Outcome(idx, f, Err("IoError"))
        ELSE IF path_exists(f, objects_dir) /\ n.count > 0
        THEN Outcome(idx, f, Err("StorageError"))
        ELSE IF ~rm.ok THEN Outcome(idx, f, Err("IoError"))
        ELSE Outcome([m \in DOMAIN idx \ {name} |-> idx[m]], rm.fs, OkUnit)

\* scan_buckets, for one directory entry of the root: hidden names and plain
\* files are skipped; the descriptor is loaded from .bucket_meta.json, or made
\* afresh (and saved when the file was missing).
ScannedBucket(f, name, now) ==
    LET meta == read_file(f, bucket_meta_path(name))
    IN  IF path_exists(f, bucket_meta_path(name)) /\ meta.ok /\ meta.node.fmt = "bucket"
        THEN meta.node.val
        ELSE create_bucket_meta(name, now)

\* list.sort_by(|a, b| a.name.cmp(&b.name)), over the values of the index
RECURSIVE SortByName(_)
SortByName(idx) ==
    LET least == CHOOSE n \in DOMAIN idx : \A m \in DOMAIN idx : ~StrLess(m, n)
    IN  IF DOMAIN idx = {} THEN <<>>
        ELSE <<idx[least]>> \o SortByName([m \in DOMAIN idx \ {least} |-> idx[m]])

\* The values of the index in some order of the map, unsorted: here the
\* descending one.
RECURSIVE list_buckets_unsorted(_)
list_buckets_unsorted(idx) ==
    LET greatest == CHOOSE n \in DOMAIN idx : \A m \in DOMAIN idx : ~StrLess(n, m)
    IN  IF DOMAIN idx = {} THEN <<>>
        ELSE <<idx[greatest]>>
                 \o list_buckets_unsorted([m \in DOMAIN idx \ {greatest} |-> idx[m]])

\* list_buckets
list_buckets(idx) == SortByName(idx)

\* buckets.values().map(|b| b.object_count).sum() and the like: the sum of
\* a field over the values of the index (field 1 is object_count, 2 is
\* total_size).
RECURSIVE SumOverBuckets(_, _)
SumOverBuckets(idx, field) ==
    IF DOMAIN idx = {} THEN 0
    ELSE LET n == CHOOSE m \in DOMAIN idx : TRUE
         IN  (IF field = 1 THEN idx[n].object_count ELSE idx[n].total_size)
                 + SumOverBuckets([m \in DOMAIN idx \ {n} |-> idx[m]], field)

StorageStats(total_buckets, total_objects, total_size) ==
    [total_buckets |-> total_buckets, total_objects |-> total_objects,
     total_size |-> total_size,
     total_size_human |-> human_readable_size(LimbsOf(total_size))]

\* get_stats with buckets of equal counts and sizes taken once.
get_stats_distinct(idx) ==
    LET distinct == {<<idx[n].object_count, idx[n].total_size>> : n \in DOMAIN idx}
        by_pair == [p \in distinct |-> [object_count |-> p[1], total_size |-> p[2]]]
    IN  StorageStats(Cardinality(DOMAIN idx), SumOverBuckets(by_pair, 1),
                     SumOverBuckets(by_pair, 2))

\* get_stats
get_stats(idx) ==
    StorageStats(Cardinality(DOMAIN idx), SumOverBuckets(idx, 1), SumOverBuckets(idx, 2))

\* The entries scan_buckets would index were hidden directories not skipped.
IsScanned_hidden_too(f, p) == Len(p) = 1 /\ IsDir(f, p)

\* The entries of the root scan_buckets indexes: directories whose name does
\* not start with '.'.
IsScanned(f, p) == Len(p) = 1 /\ IsDir(f, p) /\ p[1][1] /= "."

\* StorageEngine::new on an existing root: the index it builds and the disk
\* it leaves.
scan_buckets(f, now) ==
    LET names == {p[1] : p \in {q \in DOMAIN f : IsScanned(f, q)}}
        fresh == {n \in names : ~path_exists(f, bucket_meta_path(n))}
    IN  [index |-> [n \in names |-> ScannedBucket(f, n, now)],
         fs |-> [q \in DOMAIN f \cup {<<n, BucketMetaFile>> : n \in fresh} |->
                   IF q \in DOMAIN f THEN f[q]
                   ELSE JsonFile("bucket", create_bucket_meta(q[1], now))]]

\* scan_buckets returns an error, and new with it, when a .bucket_meta.json
\* exists and cannot be read (fs::read_to_string(&meta_path)?).
scan_succeeds(f) ==
    \A p \in {q \in DOMAIN f : IsScanned(f, q)} :
        path_exists(f, bucket_meta_path(p[1])) => read_file(f, bucket_meta_path(p[1])).ok

----------------------------------------------------------------------------
(* Object operations.                                                      *)

\* A content type given by the caller, or none.
NoContentType == ""
ContentTypeFor(key, content_type) ==
    IF content_type /= NoContentType THEN content_type ELSE GuessContentType(key)

\* The descriptor put_object builds.
NewObjectMeta(bucket, key, data, content_type, metadata, now) ==
    ObjectMeta(key, bucket, Len(data), ContentTypeFor(key, content_type),
               ETagOf(data), now, metadata)

\* put_object up to the stat refresh: the data file, then the metadata file.
\* [ok, fs]
\* put_files with the data file opened for appending instead of truncated.
put_files_appending(f, bucket, key, data, meta) ==
    LET obj_path == object_path(bucket, key)
        d1 == create_dir_all(f, ParentOf(obj_path))
        old == read_file(d1.fs, obj_path)
        bytes == IF old.ok /\ old.node.fmt = "raw" THEN old.node.val \o data ELSE data
        w1 == write_file(d1.fs, obj_path, RawFile(bytes))
        meta_path == object_meta_path(bucket, key)
        d2 == create_dir_all(w1.fs, ParentOf(meta_path))
        w2 == write_file(d2.fs, meta_path, JsonFile("object", meta))
    IN  IF ~d1.ok THEN d1
        ELSE IF ~w1.ok THEN w1
        ELSE IF ~d2.ok THEN d2
        ELSE w2

put_files(f, bucket, key, data, meta) ==
    LET obj_path == object_path(bucket, key)
        d1 == create_dir_all(f, ParentOf(obj_path))
        w1 == write_file(d1.fs, obj_path, RawFile(data))
        meta_path == object_meta_path(bucket, key)
        d2 == create_dir_all(w1.fs, ParentOf(meta_path))
        w2 == write_file(d2.fs, meta_path, JsonFile("object", meta))
    IN  IF ~d1.ok THEN d1
        ELSE IF ~w1.ok THEN w1
        ELSE IF ~d2.ok THEN d2
        ELSE w2

\* put_object with the key validated only after the files were written.
put_object_late_check(idx, f, bucket, key, data, content_type, metadata, now) ==
    IF bucket \notin DOMAIN idx THEN Outcome(idx, f, Err("BucketNotFound"))
    ELSE
    LET meta == NewObjectMeta(bucket, key, data, content_type, metadata, now)
        w == put_files(f, bucket, key, data, meta)
        st == update_bucket_stats(idx, w.fs, bucket)
    IN  IF key = <<>> \/ Len(key) > MaxKeyLen
        THEN Outcome(idx, w.fs, Err("InvalidObjectKey"))
        ELSE IF ~w.ok THEN Outcome(idx, w.fs, Err("IoError"))
        ELSE Outcome(st.index, st.fs, Result("Ok", NoBucket, meta, <<>>))

\* put_object with the key validated before the bucket is looked up.
put_object_key_first(idx, f, bucket, key, data, content_type, metadata, now) ==
    IF key = <<>> \/ Len(key) > MaxKeyLen
    THEN Outcome(idx, f, Err("InvalidObjectKey"))
    ELSE IF bucket \notin DOMAIN idx THEN Outcome(idx, f, Err("BucketNotFound"))
    ELSE
    LET meta == NewObjectMeta(bucket, key, data, content_type, metadata, now)
        w == put_files(f, bucket, key, data, meta)
        st == update_bucket_stats(idx, w.fs, bucket)
    IN  IF ~w.ok THEN Outcome(idx, w.fs, Err("IoError"))
        ELSE Outcome(st.index, st.fs, Result("Ok", NoBucket, meta, <<>>))

\* put_object
put_object(idx, f, bucket, key, data, content_type, metadata, now) ==
    IF bucket \notin DOMAIN idx THEN Outcome(idx, f, Err("BucketNotFound"))
    ELSE IF key = <<>> \/ Len(key) > MaxKeyLen
    THEN Outcome(idx, f, Err("InvalidObjectKey"))
    ELSE
    LET meta == NewObjectMeta(bucket, key, data, content_type, metadata, now)
        w == put_files(f, bucket, key, data, meta)
        st == update_bucket_stats(idx, w.fs, bucket)
    IN  IF ~w.ok THEN Outcome(idx, w.fs, Err("IoError"))
        ELSE Outcome(st.index, st.fs, Result("Ok", NoBucket, meta, <<>>))

\* get_object_meta without the reconstruction: a missing metadata file is
\* a missing object.
get_object_meta_stored_only(f, bucket, key, now) ==
    LET meta_path == object_meta_path(bucket, key)
        json == read_file(f, meta_path)
    IN  IF ~path_exists(f, meta_path) THEN Err("ObjectNotFound")
        ELSE IF ~json.ok THEN Err("IoError")
        ELSE IF json.node.fmt /= "object" THEN Err("StorageError")
        ELSE Result("Ok", NoBucket, json.node.val, <<>>)

\* get_object_meta: the stored descriptor, or one rebuilt from the data file
\* when the metadata file is missing.
get_object_meta(f, bucket, key, now) ==
    LET meta_path == object_meta_path(bucket, key)
        obj_path == object_path(bucket, key)
        data == read_file(f, obj_path)
        json == read_file(f, meta_path)
    IN  IF ~path_exists(f, meta_path)
        THEN IF ~path_exists(f, obj_path) THEN Err("ObjectNotFound")
             ELSE IF ~data.ok THEN Err("IoError")
             ELSE Result("Ok", NoBucket,
                         ObjectMeta(key, bucket, Len(FileBytes(data.node)),
                                    GuessContentType(key),
                                    ETagOf(FileBytes(data.node)), now, {}),
                         <<>>)
        ELSE IF ~json.ok THEN Err("IoError")
        ELSE IF json.node.fmt /= "object" THEN Err("StorageError")
        ELSE Result("Ok", NoBucket, json.node.val, <<>>)

\* get_object
get_object(idx, f, bucket, key, now) ==
    LET obj_path == object_path(bucket, key)
        data == read_file(f, obj_path)
        meta == get_object_meta(f, bucket, key, now)
    IN  IF bucket \notin DOMAIN idx THEN Err("BucketNotFound")
        ELSE IF ~path_exists(f, obj_path) THEN Err("ObjectNotFound")
        ELSE IF ~data.ok THEN Err("IoError")
        ELSE IF meta.err /= "Ok" THEN meta
        ELSE Result("Ok", NoBucket, meta.meta, FileBytes(data.node))

\* cleanup_empty_dirs: from dir upwards, each empty directory is removed (a
\* failed removal is ignored), until a directory that is not empty, one that
\* cannot be read, or stop_at.
RECURSIVE cleanup_empty_dirs(_, _, _)
cleanup_empty_dirs(f, dir, stop_at) ==
    IF dir.comps = stop_at.comps THEN f
    ELSE LET n == read_dir_count(f, dir)
         IN  IF ~n.ok \/ n.count /= 0 THEN f
             ELSE IF dir.comps = <<>> THEN remove_dir(f, dir).fs
             ELSE cleanup_empty_dirs(remove_dir(f, dir).fs, ParentOf(dir), stop_at)

\* delete_object up to the stat refresh.  [err, fs]
delete_files(f, bucket, key) ==
    LET obj_path == object_path(bucket, key)
        meta_path == object_meta_path(bucket, key)
        r1 == remove_file(f, obj_path)
        r2 == IF path_exists(r1.fs, meta_path) THEN remove_file(r1.fs, meta_path)
              ELSE Done(r1.fs)
    IN  IF ~path_exists(f, obj_path) THEN [err |-> "ObjectNotFound", fs |-> f]
        ELSE IF ~r1.ok THEN [err |-> "IoError", fs |-> f]
        ELSE IF ~r2.ok THEN [err |-> "IoError", fs |-> r2.fs]
        ELSE [err |-> "Ok",
              fs |-> cleanup_empty_dirs(r2.fs, ParentOf(obj_path), objects_root(bucket))]

\* delete_object
delete_object(idx, f, bucket, key) ==
    IF bucket \notin DOMAIN idx THEN Outcome(idx, f, Err("BucketNotFound"))
    ELSE
    LET d == delete_files(f, bucket, key)
        st == update_bucket_stats(idx, d.fs, bucket)
    IN  IF d.err /= "Ok" THEN Outcome(idx, d.fs, Err(d.err))
        ELSE Outcome(st.index, st.fs, OkUnit)

----------------------------------------------------------------------------
(* Listing.                                                                *)

\* Option<&str> for the delimiter
NoDelimiter == [some |-> FALSE, val |-> <<>>]
Delimiter(d) == [some |-> TRUE, val |-> d]

\* path.strip_prefix(root): the components below objects/, joined by '/'
RECURSIVE JoinSlash(_)
JoinSlash(cs) ==
    IF cs = <<>> THEN <<>>
    ELSE IF Len(cs) = 1 THEN cs[1]
    ELSE cs[1] \o <<"/">> \o JoinSlash(Tail(cs))

RelKey(p) == JoinSlash(SubSeq(p, 3, Len(p)))

\* The part of rel after the prefix, and whether the delimiter occurs in it.
AfterPrefix(rel, prefix) == SubSeq(rel, Len(prefix) + 1, Len(rel))
IsFolded(rel, prefix, delimiter) ==
    delimiter.some /\ Occurrences(AfterPrefix(rel, prefix), delimiter.val) /= {}
CommonPrefixOf(rel, prefix, delimiter) ==
    LET after_prefix == AfterPrefix(rel, prefix)
        pos == Min(Occurrences(after_prefix, delimiter.val))
    IN  prefix \o SubSeq(after_prefix, 1, pos) \o delimiter.val

\* walk_objects: the files below objects/ whose relative path starts with
\* the prefix either give a common prefix or, when their descriptor loads,
\* an object.  [objects, common_prefixes], the objects by the file they
\* were listed for.
walk_objects(f, bucket, prefix, delimiter, now) ==
    LET matching == {p \in FilesUnder(f, <<bucket, ObjectsDir>>) :
                         StartsWith(RelKey(p), prefix)}
        folded == {p \in matching : IsFolded(RelKey(p), prefix, delimiter)}
        loaded == [p \in matching \ folded |-> get_object_meta(f, bucket, RelKey(p), now)]
    IN  [objects |-> [p \in {q \in matching \ folded : loaded[q].err = "Ok"} |->
                         loaded[p].meta],
         common_prefixes |-> {CommonPrefixOf(RelKey(p), prefix, delimiter) : p \in folded}]

\* objects.sort_by(|a, b| a.key.cmp(&b.key))
RECURSIVE SortByKey(_)
SortByKey(objects) ==
    LET listed == objects
        least == CHOOSE p \in DOMAIN listed :
                     \A q \in DOMAIN listed : ~StrLess(listed[q].key, listed[p].key)
    IN  IF DOMAIN listed = {} THEN <<>>
        ELSE <<listed[least]>>
                 \o SortByKey([q \in DOMAIN listed \ {least} |-> listed[q]])

\* common_prefixes.sort(); common_prefixes.dedup()
RECURSIVE SortStrings(_)
SortStrings(S) ==
    IF S = {} THEN <<>>
    ELSE LET least == CHOOSE x \in S : \A y \in S : ~StrLess(y, x)
         IN  <<least>> \o SortStrings(S \ {least})

\* ListObjectsResponse, with the error of a failed call
ListObjectsResponse(err, bucket, prefix, objects, common_prefixes, is_truncated, max_keys) ==
    [err |-> err, bucket |-> bucket, prefix |-> prefix, objects |-> objects,
     common_prefixes |-> common_prefixes, is_truncated |-> is_truncated,
     max_keys |-> max_keys]

\* list_objects with is_truncated computed after the truncation.
list_objects_late_flag(idx, f, bucket, prefix, delimiter, max_keys, now) ==
    IF bucket \notin DOMAIN idx
    THEN ListObjectsResponse("BucketNotFound", bucket, prefix, <<>>, <<>>, FALSE, max_keys)
    ELSE
    LET walked == IF path_exists(f, objects_root(bucket))
                  THEN walk_objects(f, bucket, prefix, delimiter, now)
                  ELSE [objects |-> <<>>, common_prefixes |-> {}]
        objects == SortByKey(walked.objects)
        kept == SubSeq(objects, 1, IF Len(objects) > max_keys THEN max_keys ELSE Len(objects))
    IN  ListObjectsResponse("Ok", bucket, prefix, kept,
                            SortStrings(walked.common_prefixes), Len(kept) > max_keys,
                            max_keys)

\* list_objects with the common prefixes truncated to max_keys as well.
list_objects_prefixes_cut(idx, f, bucket, prefix, delimiter, max_keys, now) ==
    IF bucket \notin DOMAIN idx
    THEN ListObjectsResponse("BucketNotFound", bucket, prefix, <<>>, <<>>, FALSE, max_keys)
    ELSE
    LET walked == IF path_exists(f, objects_root(bucket))
                  THEN walk_objects(f, bucket, prefix, delimiter, now)
                  ELSE [objects |-> <<>>, common_prefixes |-> {}]
        objects == SortByKey(walked.objects)
        prefixes == SortStrings(walked.common_prefixes)
        is_truncated == Len(objects) > max_keys
    IN  ListObjectsResponse("Ok", bucket, prefix,
                            SubSeq(objects, 1, IF is_truncated THEN max_keys ELSE Len(objects)),
                            SubSeq(prefixes, 1, IF Len(prefixes) > max_keys THEN max_keys
                                                ELSE Len(prefixes)),
                            is_truncated, max_keys)

\* list_objects
list_objects(idx, f, bucket, prefix, delimiter, max_keys, now) ==
    IF bucket \notin DOMAIN idx
    THEN ListObjectsResponse("BucketNotFound", bucket, prefix, <<>>, <<>>, FALSE, max_keys)
    ELSE
    LET walked == IF path_exists(f, objects_root(bucket))
                  THEN walk_objects(f, bucket, prefix, delimiter, now)
                  ELSE [objects |-> <<>>, common_prefixes |-> {}]
        objects == SortByKey(walked.objects)
        is_truncated == Len(objects) > max_keys
    IN  ListObjectsResponse("Ok", bucket, prefix,
                            SubSeq(objects, 1, IF is_truncated THEN max_keys ELSE Len(objects)),
                            SortStrings(walked.common_prefixes), is_truncated, max_keys)

----------------------------------------------------------------------------
(* The inputs the calls are drawn from.                                    *)

Bk1 == <<"b", "k", "1">>             \* a valid bucket name
DotB2 == <<".", "b", "2">>           \* a valid bucket name that starts with '.'
Bk2 == <<"b", "k", "2">>             \* another valid bucket name
BadName == <<"A", "B">>              \* too short, upper case
BucketNames == {Bk1, DotB2}

Local == <<"l", "o", "c", "a", "l">>
Regions == {Local, <<"e", "u">>}

KeyA == <<"a">>
KeyAB == <<"a", "/", "b">>
KeyFlat == <<"a">> \o SlashMarker \o <<"b">>     \* "a__SLASH__b"
KeyAC == <<"a", "/", "c">>
\* "../../bk2/objects/a": from any bucket this names key "a" of bucket bk2
KeyUp == <<".", ".", "/", ".", ".", "/">> \o Bk2 \o <<"/">> \o ObjectsDir \o <<"/", "a">>
Keys == {KeyA, KeyAB}

\* A put's payload, content type and custom metadata.
PutInput(data, content_type, metadata) ==
    [data |-> data, content_type |-> content_type, metadata |-> metadata]
PutInputs == {PutInput(<<7>>, NoContentType, {}),
              PutInput(<<8, 9>>, "image/png", {<<"x", "y">>})}

----------------------------------------------------------------------------
(* Sequential execution: one call at a time, each an atomic step.          *)

Call(op, bucket, key, input, region, res) ==
    [op |-> op, bucket |-> bucket, key |-> key, input |-> input,
     region |-> region, res |-> res]
NoInput == PutInput(<<>>, NoContentType, {})
NoCall == Call("new", <<>>, <<>>, NoInput, <<>>, OkUnit)

NoLock == [writer |-> 0, readers |-> {}]

\* A task: the call it runs, where it stands in it, and the call's locals:
\* st, what dir_stats returned; fd, the open data file (its path, and whether
\* the path still names the file); cur, the directory cleanup_empty_dirs is at.
NoFd == [path |-> <<>>, linked |-> FALSE]
Task(pc, call, st, fd, cur) == [pc |-> pc, call |-> call, st |-> st, fd |-> fd, cur |-> cur]
IdleTask == Task("idle", NoCall, [count |-> 0, size |-> 0], NoFd, LexPath(<<>>, FALSE))
Idle == [t \in Tasks |-> IdleTask]

\* The object files on disk: the regular files below a bucket's objects/.
DataFiles(f) == {p \in DOMAIN f : Len(p) >= 3 /\ p[2] = ObjectsDir /\ f[p].kind = "file"}

\* StorageEngine::new on an empty data directory
Init ==
    /\ index = <<>>
    /\ fs = EmptyDisk
    /\ last = NoCall
    /\ clock = 1
    /\ procs = Idle
    /\ lock = NoLock

\* A call returns: its outcome is installed, and time has passed (the clock
\* stops at MaxTime).
Apply(out, call) ==
    /\ index' = out.index
    /\ fs' = out.fs
    /\ last' = call
    /\ clock' = IF clock < MaxTime THEN clock + 1 ELSE clock
    /\ UNCHANGED <<procs, lock>>

CreateBucket(name, region) ==
    LET out == create_bucket(index, fs, name, region, clock)
    IN  Apply(out, Call("create_bucket", name, <<>>, NoInput, region, out.res))

DeleteBucket(name) ==
    LET out == delete_bucket(index, fs, name)
    IN  Apply(out, Call("delete_bucket", name, <<>>, NoInput, <<>>, out.res))

GetBucket(name) ==
    Apply(Outcome(index, fs, get_bucket(index, name)),
          Call("get_bucket", name, <<>>, NoInput, <<>>, get_bucket(index, name)))

PutObjectUpTo(max, bucket, key, input) ==
    LET out == put_object(index, fs, bucket, key, input.data, input.content_type,
                          input.metadata, clock)
    IN  /\ Cardinality(DataFiles(fs)) < max
        /\ Apply(out, Call("put_object", bucket, key, input, <<>>, out.res))

PutObject(bucket, key, input) == PutObjectUpTo(MaxFiles, bucket, key, input)

GetObject(bucket, key) ==
    LET res == get_object(index, fs, bucket, key, clock)
    IN  Apply(Outcome(index, fs, res), Call("get_object", bucket, key, NoInput, <<>>, res))

DeleteObject(bucket, key) ==
    LET out == delete_object(index, fs, bucket, key)
    IN  Apply(out, Call("delete_object", bucket, key, NoInput, <<>>, out.res))

\* The process is stopped and a new engine is constructed on the same root.
Restart ==
    LET out == scan_buckets(fs, clock)
    IN  /\ scan_succeeds(fs)
        /\ Apply(Outcome(out.index, out.fs, OkUnit), NoCall)

\* The calls that change buckets and objects, with their inputs drawn from
\* the given sets.
Mutate(names, regions, keys, inputs) ==
    \/ \E name \in names, region \in regions : CreateBucket(name, region)
    \/ \E name \in names : DeleteBucket(name)
    \/ \E bucket \in names, key \in keys, input \in inputs : PutObject(bucket, key, input)
    \/ \E bucket \in names, key \in keys : DeleteObject(bucket, key)

Next ==
    \/ Mutate(BucketNames, Regions, Keys, PutInputs)
    \/ \E region \in Regions : CreateBucket(BadName, region)
    \/ \E name \in BucketNames : GetBucket(name)
    \/ \E bucket \in BucketNames, key \in Keys : GetObject(bucket, key)
    \/ Restart

Spec == Init /\ [][Next]_vars

\* The four mutating calls alone, with keys that leave the bucket's objects/.
NextKeys == Mutate({Bk1, Bk2}, {Local}, {KeyA, KeyUp}, {PutInput(<<7>>, NoContentType, {})})

SpecKeys == Init /\ [][NextKeys]_vars

\* Calls with inputs that are refused: an invalid bucket name, a bucket that
\* is never created, the empty key, a key one byte too long ("d/kkk..."), and
\* a key that is a directory-like prefix of another.
LongKey == <<"d", "/">> \o [i \in 1..(MaxKeyLen - 1) |-> "k"]
ErrKeys == {<<>>, LongKey, KeyA, KeyAB}
ErrInputs == {PutInput(<<7>>, NoContentType, {})}

NextErrors ==
    \/ \E name \in {Bk1, BadName} : CreateBucket(name, Local)
    \/ \E name \in {Bk1, Bk2} : DeleteBucket(name)
    \/ \E name \in {Bk1, Bk2} : GetBucket(name)
    \/ \E bucket \in {Bk1, Bk2}, key \in ErrKeys, input \in ErrInputs :
           PutObject(bucket, key, input)
    \/ \E bucket \in {Bk1, Bk2}, key \in ErrKeys : GetObject(bucket, key)
    \/ \E bucket \in {Bk1, Bk2}, key \in ErrKeys : DeleteObject(bucket, key)

SpecErrors == Init /\ [][NextErrors]_vars

\* Puts with keys at the limits of the key's length: none, 1, 1024 and 1025
\* bytes, into a bucket that is created and one that never is.
FullKey == <<"d", "/">> \o [i \in 1..(MaxKeyLen - 2) |-> "k"]
LengthKeys == {<<>>, KeyA, FullKey, LongKey}

NextKeyLength ==
    \/ CreateBucket(Bk1, Local)
    \/ \E bucket \in {Bk1, Bk2}, key \in LengthKeys, input \in PutInputs :
           PutObject(bucket, key, input)
    \/ \E key \in LengthKeys : DeleteObject(Bk1, key)

SpecKeyLength == Init /\ [][NextKeyLength]_vars

\* Bucket names around the limits of validate_bucket_name: every pair of
\* first and last character (or none) around a run of 'm', with lengths from
\* 0 to MaxBucketNameLen + 2, and three-character names with each kind of
\* character in the middle.
NameEnds == {<<>>, <<"a">>, <<"9">>, <<"-">>, <<".">>, <<"A">>}
NameRuns == {0, 1, MinBucketNameLen - 1, MinBucketNameLen,
             MaxBucketNameLen - 2, MaxBucketNameLen - 1, MaxBucketNameLen}
NameSamples ==
    {h \o [i \in 1..n |-> "m"] \o t : h \in NameEnds, t \in NameEnds, n \in NameRuns}
    \cup {<<"a", c, "z">> : c \in {"-", ".", "_", "Z", "/", " ", "0"}}

\* createBucket on a fresh engine, and deleteBucket of the bucket it made.
NextNames ==
    \/ \E name \in NameSamples : index = <<>> /\ CreateBucket(name, Local)
    \/ \E name \in DOMAIN index : DeleteBucket(name)

SpecNames == Init /\ [][NextNames]_vars

\* Calls with a key that ends in '/' ("d/e/"), which passes key validation and
\* names a directory, beside plain keys.
KeySlash == <<"d", "/", "e", "/">>
SlashKeys == {KeyA, KeyAB, KeySlash}

NextSlash ==
    \/ Mutate({Bk1}, {Local}, SlashKeys, PutInputs)
    \/ GetBucket(Bk1)
    \/ \E key \in SlashKeys : GetObject(Bk1, key)

SpecSlash == Init /\ [][NextSlash]_vars

\* Calls with keys that pass key validation and hold ".." components.
KeyPeer == <<".", ".", "/", ".", ".", "/">> \o Bk2                \* "../../bk2"
KeyBack == <<"a", "/", ".", ".", "/", "b">>                        \* "a/../b"
KeyDescriptor == <<".", ".", "/">> \o BucketMetaFile               \* "../.bucket_meta.json"
DotDotKeys == {KeyAB, KeyPeer, KeyBack, KeyDescriptor}

NextDotDot ==
    \/ Mutate({Bk1, Bk2}, {Local}, DotDotKeys, ErrInputs)
    \/ \E name \in {Bk1, Bk2} : GetBucket(name)
    \/ \E bucket \in {Bk1, Bk2}, key \in DotDotKeys : GetObject(bucket, key)

SpecDotDot == Init /\ [][NextDotDot]_vars

\* Calls with a key that names the descriptor file of the other bucket:
\* "../../bk2/.bucket_meta.json".
KeyPeerDescriptor == <<".", ".", "/", ".", ".", "/">> \o Bk2 \o <<"/">> \o BucketMetaFile

NextPeerDescriptor ==
    \/ Mutate({Bk1, Bk2}, {Local}, {KeyA, KeyPeerDescriptor}, ErrInputs)
    \/ \E bucket \in {Bk1, Bk2} : GetObject(bucket, KeyA)

SpecPeerDescriptor == Init /\ [][NextPeerDescriptor]_vars

\* Restarts over roots that hold, besides buckets made by createBucket, a
\* hidden directory (".b2"), a directory without descriptor file (bk2, made
\* by the key "../../bk2/objects/a"), a plain file (bk2, made by the key
\* "../../bk2") and a descriptor file that is not JSON.
ScanKeys == {KeyUp, KeyPeer, KeyPeerDescriptor}

NextScan ==
    \/ \E name \in {Bk1, DotB2} : CreateBucket(name, Local)
    \/ \E key \in ScanKeys, input \in ErrInputs : PutObject(Bk1, key, input)
    \/ \E key \in ScanKeys : DeleteObject(Bk1, key)
    \/ DeleteBucket(Bk2)
    \/ Restart

SpecScan == Init /\ [][NextScan]_vars

\* Bucket listing: valid names that differ in a '-', a '.', a digit, a letter
\* and in length ("b-k" < "b.k" < "bk1" < "bk10" < "bk2" < "bka" in byte order).
ListedNames == {<<"b", "-", "k">>, <<"b", ".", "k">>, Bk1, Bk1 \o <<"0">>, Bk2,
                <<"b", "k", "a">>}

ListBuckets ==
    Apply(Outcome(index, fs, OkUnit),
          Call("list_buckets", <<>>, <<>>, NoInput, <<>>,
               [err |-> "Ok", buckets |-> list_buckets(index)]))

NextBuckets ==
    \/ \E name \in ListedNames : CreateBucket(name, Local)
    \/ \E name \in ListedNames : DeleteBucket(name)
    \/ last.op /= "list_buckets" /\ ListBuckets

SpecBuckets == Init /\ [][NextBuckets]_vars

\* Byte counts rendered: the small ones around the first unit's limit and
\* around the rounding of the second decimal place (1029 = 1.0048.. KB, 1152 =
\* 1.125 KB, 1408 = 1.375 KB), and for every unit counts with the least and
\* the greatest leading digits, a fraction that is 0, a tie (128/1024), a
\* half, the greatest before the next integer (1018/1024 and up), and low
\* digits that are all 0, all 1 or all 1023 - up to u64::MAX.
SmallCounts == {0, 1, 9, 10, 999, 1023, 1024, 1025, 1029, 1152, 1408, 1536, 2047,
                1048575, 1048576}
LimbsLike(top, lead, next, rest) ==
    [i \in 1..NumLimbs |-> IF i > top THEN 0 ELSE IF i = top THEN lead
                           ELSE IF i = top - 1 THEN next ELSE rest]
ByteCounts ==
    {LimbsOf(n) : n \in SmallCounts}
    \cup {LimbsLike(top, lead, next, rest) :
              top \in 2..NumLimbs, lead \in {1, 8, TopLimbMax},
              next \in {0, 128, 512, 1018, 1023}, rest \in {0, 1, 1023}}
    \cup {LimbsLike(top, 1023, next, rest) :
              top \in 2..(NumLimbs - 1), next \in {0, 1023}, rest \in {0, 1023}}

HumanReadableSize(bytes) ==
    Apply(Outcome(index, fs, OkUnit),
          Call("human_readable_size", <<>>, <<>>, bytes, <<>>,
               [err |-> "Ok", text |-> human_readable_size(bytes)]))

NextSizes == \E bytes \in ByteCounts : HumanReadableSize(bytes)

SpecSizes == Init /\ [][NextSizes]_vars

\* Statistics over two buckets, with objects of one and of two bytes and a
\* key that stores into the other bucket.
GetStats ==
    Apply(Outcome(index, fs, OkUnit),
          Call("get_stats", <<>>, <<>>, NoInput, <<>>,
               [err |-> "Ok", stats |-> get_stats(index)]))

NextStats ==
    \/ Mutate({Bk1, Bk2}, {Local}, {KeyAB, KeyUp}, PutInputs)
    \/ last.op /= "get_stats" /\ GetStats

SpecStats == Init /\ [][NextStats]_vars

\* Listing: the keys stored, and the prefixes, delimiters and maxKeys asked.
KeyPhotoA == <<"p", "h", "o", "t", "o", "s", "/", "a", ".", "j", "p", "g">>
KeyPhotoBC == <<"p", "h", "o", "t", "o", "s", "/", "b", "/", "c", ".", "j", "p", "g">>
KeyPhotoBE == <<"p", "h", "o", "t", "o", "s", "/", "b", "/", "e">>
KeyDocsD == <<"d", "o", "c", "s", "/", "d", ".", "t", "x", "t">>
\* "photos__SLASH__a.jpg", whose metadata file is that of "photos/a.jpg"
KeyPhotoFlat == <<"p", "h", "o", "t", "o", "s">> \o SlashMarker \o <<"a", ".", "j", "p", "g">>
ListKeys == {KeyPhotoA, KeyPhotoBC, KeyPhotoBE, KeyDocsD, KeyPhotoFlat}
ListPrefixes == {<<>>, <<"p", "h", "o", "t", "o", "s", "/">>,
                 <<"p", "h", "o", "t", "o", "s", "/", "b">>}
ListDelimiters == {NoDelimiter, Delimiter(<<"/">>), Delimiter(<<"_", "_">>),
                   Delimiter(<<>>)}
ListInput(prefix, delimiter, max_keys) ==
    [prefix |-> prefix, delimiter |-> delimiter, max_keys |-> max_keys]

ListObjects(bucket, prefix, delimiter, max_keys) ==
    LET res == list_objects(index, fs, bucket, prefix, delimiter, max_keys, clock)
    IN  Apply(Outcome(index, fs, res),
              Call("list_objects", bucket, <<>>, ListInput(prefix, delimiter, max_keys),
                   <<>>, res))

\* A listing only reads, so a listing right after a listing shows nothing
\* that one listing does not: NextList leaves such steps out.
NextList ==
    \/ CreateBucket(Bk1, Local)
    \/ \E key \in ListKeys, input \in ErrInputs : PutObjectUpTo(MaxListed, Bk1, key, input)
    \/ \E key \in ListKeys : DeleteObject(Bk1, key)
    \/ \E key \in ListKeys : GetObject(Bk1, key)
    \/ \E prefix \in ListPrefixes, delimiter \in ListDelimiters,
          max_keys \in 0..MaxKeysAsked :
           last.op /= "list_objects" /\ ListObjects(Bk1, prefix, delimiter, max_keys)

\* Listing when a key with a ".." component names another key's metadata
\* file: "../.meta/photos__SLASH__a.jpg.json".
KeyIntoMeta == <<".", ".", "/">> \o MetaDir \o <<"/">> \o ReplaceSlash(KeyPhotoA) \o JsonExt
IntoMetaKeys == {KeyPhotoA, KeyDocsD, KeyIntoMeta}

NextListDotDot ==
    \/ CreateBucket(Bk1, Local)
    \/ \E key \in IntoMetaKeys, input \in ErrInputs :
           PutObjectUpTo(MaxListed, Bk1, key, input)
    \/ \E key \in IntoMetaKeys : DeleteObject(Bk1, key)
    \/ \E key \in IntoMetaKeys : GetObject(Bk1, key)
    \/ \E delimiter \in {NoDelimiter, Delimiter(<<"/">>)}, max_keys \in 0..MaxKeysAsked :
           last.op /= "list_objects" /\ ListObjects(Bk1, <<>>, delimiter, max_keys)

SpecListDotDot == Init /\ [][NextListDotDot]_vars

SpecList == Init /\ [][NextList]_vars

\* Every operation of the engine, over two buckets, with a key that stores
\* into the other bucket, and restarts.
NextFrame ==
    \/ Mutate({Bk1, Bk2}, {Local}, {KeyAB, KeyUp}, ErrInputs)
    \/ \E name \in {Bk1, Bk2} : GetBucket(name)
    \/ \E bucket \in {Bk1, Bk2}, key \in {KeyAB, KeyUp} : GetObject(bucket, key)
    \/ \E bucket \in {Bk1, Bk2}, delimiter \in {NoDelimiter, Delimiter(<<"/">>)} :
           ListObjects(bucket, <<>>, delimiter, 1)
    \/ ListBuckets
    \/ GetStats
    \/ Restart

SpecFrame == Init /\ [][NextFrame]_vars

----------------------------------------------------------------------------
(* Concurrent execution: every task runs one call, as the steps the code   *)
(* takes - a section under the index lock, or one file-system call on a    *)
(* path.  The JSON files are written whole (fs::write).                    *)

Pending == Err("-")
ConcKeys == {KeyAB, KeyAC}
ConcCalls ==
    {Call("create_bucket", Bk1, <<>>, NoInput, region, Pending) : region \in Regions}
    \cup {Call("create_bucket", BadName, <<>>, NoInput, Local, Pending)}
    \cup {Call("delete_bucket", Bk1, <<>>, NoInput, <<>>, Pending)}
    \cup {Call("put_object", Bk1, key, input, <<>>, Pending) :
              key \in ConcKeys, input \in PutInputs}
    \cup {Call("delete_object", Bk1, key, NoInput, <<>>, Pending) : key \in ConcKeys}

\* The engine before the calls start: new; after createBucket(bk1); after
\* that and putObject(bk1, "a/b").
Engine0 == Outcome(<<>>, EmptyDisk, OkUnit)
Engine1 == create_bucket(Engine0.index, Engine0.fs, Bk1, Local, 1)
Engine2 == put_object(Engine1.index, Engine1.fs, Bk1, KeyAB, <<7>>, NoContentType, {}, 1)

InitConc ==
    /\ \E e \in {[out |-> Engine0, call |-> NoCall],
                 [out |-> Engine1, call |-> Call("create_bucket", Bk1, <<>>, NoInput,
                                                 Local, Engine1.res)],
                 [out |-> Engine2, call |-> Call("put_object", Bk1, KeyAB,
                                                 PutInput(<<7>>, NoContentType, {}),
                                                 <<>>, Engine2.res)]} :
           /\ index = e.out.index
           /\ fs = e.out.fs
           /\ last = e.call
    /\ clock = MaxTime
    /\ procs = Idle
    /\ lock = NoLock

Goto(t, pc) == procs' = [procs EXCEPT ![t].pc = pc]
Return(t, res) == procs' = [procs EXCEPT ![t].pc = "done", ![t].call.res = res]
At(t, op, pc) == procs[t].pc = pc /\ procs[t].call.op = op

\* RwLock: a writer excludes everyone, readers exclude a writer.
CanRead(t) == lock.writer = 0
\* A write lock that excludes readers but not another writer.
CanWriteShared(t) == lock.readers = {}
CanWrite(t) == lock.writer = 0 /\ lock.readers = {}
ReadLocked(t) == [lock EXCEPT !.readers = @ \cup {t}]
ReadUnlocked(t) == [lock EXCEPT !.readers = @ \ {t}]
WriteLocked(t) == [lock EXCEPT !.writer = t]
WriteUnlocked(t) == [lock EXCEPT !.writer = 0]

\* A task starts its call.
StartCall(t, call) ==
    /\ procs[t].pc = "idle"
    /\ procs' = [procs EXCEPT ![t] = Task("begin", call, @.st, @.fd, @.cur)]
    /\ UNCHANGED <<index, fs, last, clock, lock>>

\* put_object, get_object, delete_object, get_bucket: self.buckets.read() ...
AcquireRead(t) ==
    /\ procs[t].pc = "begin"
    /\ procs[t].call.op \in {"put_object", "delete_object", "get_bucket"}
    /\ CanRead(t)
    /\ lock' = ReadLocked(t)
    /\ Goto(t, IF procs[t].call.op = "get_bucket" THEN "lookup" ELSE "check")
    /\ UNCHANGED <<index, fs, last, clock>>

\* A contains_key test whose read guard lives on to the end of the call.
CheckBucket_guard_kept(t) ==
    /\ procs[t].pc = "check"
    /\ lock' = lock
    /\ IF procs[t].call.bucket \notin DOMAIN index
       THEN Return(t, Err("BucketNotFound"))
       ELSE IF procs[t].call.op = "put_object"
               /\ (procs[t].call.key = <<>> \/ Len(procs[t].call.key) > MaxKeyLen)
       THEN Return(t, Err("InvalidObjectKey"))
       ELSE Goto(t, IF procs[t].call.op = "put_object" THEN "mkdir" ELSE "exists")
    /\ UNCHANGED <<index, fs, last, clock>>

\* ... contains_key(bucket), and the guard is dropped; put_object then
\* validates the key.
CheckBucket(t) ==
    /\ procs[t].pc = "check"
    /\ lock' = ReadUnlocked(t)
    /\ IF procs[t].call.bucket \notin DOMAIN index
       THEN Return(t, Err("BucketNotFound"))
       ELSE IF procs[t].call.op = "put_object"
               /\ (procs[t].call.key = <<>> \/ Len(procs[t].call.key) > MaxKeyLen)
       THEN Return(t, Err("InvalidObjectKey"))
       ELSE Goto(t, IF procs[t].call.op = "put_object" THEN "mkdir" ELSE "exists")
    /\ UNCHANGED <<index, fs, last, clock>>

\* put_object: fs::create_dir_all(obj_path.parent())?
PutMkdir(t) ==
    /\ At(t, "put_object", "mkdir")
    /\ LET c == procs[t].call
           d == create_dir_all(fs, ParentOf(object_path(c.bucket, c.key)))
       IN  /\ fs' = d.fs
           /\ IF d.ok THEN Goto(t, "create") ELSE Return(t, Err("IoError"))
    /\ UNCHANGED <<index, last, clock, lock>>

\* put_object: File::create(&obj_path)? - the file is made, or emptied
PutCreate(t) ==
    /\ At(t, "put_object", "create")
    /\ LET c == procs[t].call
           lp == object_path(c.bucket, c.key)
           r == Resolve(fs, lp)
           w == write_file(fs, lp, RawFile(<<>>))
       IN  /\ fs' = w.fs
           /\ IF w.ok
              THEN procs' = [procs EXCEPT ![t].pc = "write",
                                          ![t].fd = [path |-> r.path, linked |-> TRUE]]
              ELSE Return(t, Err("IoError"))
    /\ UNCHANGED <<index, last, clock, lock>>

\* The file after data is written at offset 0 of what it holds.
Overwritten(old, data) == data \o SubSeq(old, Len(data) + 1, Len(old))

\* put_object: file.write_all(data)? - into the open file, which may have
\* been unlinked since.
PutWrite(t) ==
    /\ At(t, "put_object", "write")
    /\ LET fd == procs[t].fd
       IN  fs' = IF fd.linked
                 THEN [fs EXCEPT ![fd.path] =
                          RawFile(Overwritten(@.val, procs[t].call.input.data))]
                 ELSE fs
    /\ Goto(t, "metadir")
    /\ UNCHANGED <<index, last, clock, lock>>

\* put_object: fs::create_dir_all(meta_path.parent())?
PutMetaDir(t) ==
    /\ At(t, "put_object", "metadir")
    /\ LET c == procs[t].call
           d == create_dir_all(fs, ParentOf(object_meta_path(c.bucket, c.key)))
       IN  /\ fs' = d.fs
           /\ IF d.ok THEN Goto(t, "meta") ELSE Return(t, Err("IoError"))
    /\ UNCHANGED <<index, last, clock, lock>>

CallMeta(c, now) ==
    NewObjectMeta(c.bucket, c.key, c.input.data, c.input.content_type,
                  c.input.metadata, now)

\* put_object: fs::write(&meta_path, json)?
PutMeta(t) ==
    /\ At(t, "put_object", "meta")
    /\ LET c == procs[t].call
           w == write_file(fs, object_meta_path(c.bucket, c.key),
                           JsonFile("object", CallMeta(c, clock)))
       IN  /\ fs' = w.fs
           /\ IF w.ok THEN Goto(t, "scan") ELSE Return(t, Err("IoError"))
    /\ UNCHANGED <<index, last, clock, lock>>

\* Unlinking paths detaches the files the tasks hold open there.
Detached(gone) ==
    [t \in Tasks |->
        IF procs[t].fd.linked /\ procs[t].fd.path \in gone
        THEN [procs[t] EXCEPT !.fd.linked = FALSE]
        ELSE procs[t]]

\* delete_object: if !obj_path.exists() ...
DelExists(t) ==
    /\ At(t, "delete_object", "exists")
    /\ LET c == procs[t].call
       IN  IF path_exists(fs, object_path(c.bucket, c.key))
           THEN Goto(t, "unlink")
           ELSE Return(t, Err("ObjectNotFound"))
    /\ UNCHANGED <<index, fs, last, clock, lock>>

\* delete_object: fs::remove_file(&obj_path)?
DelUnlink(t) ==
    /\ At(t, "delete_object", "unlink")
    /\ LET c == procs[t].call
           lp == object_path(c.bucket, c.key)
           r == remove_file(fs, lp)
           after == Detached({Resolve(fs, lp).path})
       IN  /\ fs' = r.fs
           /\ IF r.ok
              THEN procs' = [after EXCEPT ![t].pc = "metaexists"]
              ELSE Return(t, Err("IoError"))
    /\ UNCHANGED <<index, last, clock, lock>>

\* delete_object: if meta_path.exists() ...
DelMetaExists(t) ==
    /\ At(t, "delete_object", "metaexists")
    /\ LET c == procs[t].call
       IN  IF path_exists(fs, object_meta_path(c.bucket, c.key))
           THEN Goto(t, "metaunlink")
           ELSE procs' = [procs EXCEPT ![t].pc = "cleanup",
                              ![t].cur = ParentOf(object_path(c.bucket, c.key))]
    /\ UNCHANGED <<index, fs, last, clock, lock>>

\* delete_object: ... fs::remove_file(&meta_path)?
DelMetaUnlink(t) ==
    /\ At(t, "delete_object", "metaunlink")
    /\ LET c == procs[t].call
           r == remove_file(fs, object_meta_path(c.bucket, c.key))
       IN  /\ fs' = r.fs
           /\ IF r.ok
              THEN procs' = [procs EXCEPT ![t].pc = "cleanup",
                                 ![t].cur = ParentOf(object_path(c.bucket, c.key))]
              ELSE Return(t, Err("IoError"))
    /\ UNCHANGED <<index, last, clock, lock>>

\* cleanup_empty_dirs, the test of one turn of its loop: the loop ends at
\* objects/, at a directory that cannot be read and at one with entries.
DelCleanup(t) ==
    /\ At(t, "delete_object", "cleanup")
    /\ LET cur == procs[t].cur
           n == read_dir_count(fs, cur)
       IN  IF cur.comps = objects_root(procs[t].call.bucket).comps
              \/ ~n.ok \/ n.count /= 0
           THEN Goto(t, "scan")
           ELSE Goto(t, "rmdir")
    /\ UNCHANGED <<index, fs, last, clock, lock>>

\* cleanup_empty_dirs: let _ = fs::remove_dir(&current), which fails on a
\* directory that has got an entry since it was read; then on to the parent.
DelRmdir(t) ==
    /\ At(t, "delete_object", "rmdir")
    /\ fs' = remove_dir(fs, procs[t].cur).fs
    /\ procs' = [procs EXCEPT ![t].pc = "cleanup", ![t].cur = ParentOf(@)]
    /\ UNCHANGED <<index, last, clock, lock>>

\* update_bucket_stats: Self::dir_stats(&objects_dir)
ScanStats(t) ==
    /\ procs[t].pc = "scan"
    /\ procs' = [procs EXCEPT ![t].pc = "wlock",
                              ![t].st = dir_stats(fs, objects_root(procs[t].call.bucket))]
    /\ UNCHANGED <<index, fs, last, clock, lock>>

\* update_bucket_stats, create_bucket, delete_bucket: self.buckets.write()
AcquireWrite(t) ==
    /\ \/ procs[t].pc = "wlock"
       \/ procs[t].pc = "begin" /\ procs[t].call.op = "delete_bucket"
       \/ /\ procs[t].pc = "begin" /\ procs[t].call.op = "create_bucket"
          /\ validate_bucket_name(procs[t].call.bucket)
    /\ CanWrite(t)
    /\ lock' = WriteLocked(t)
    /\ Goto(t, IF procs[t].pc = "wlock" THEN "store" ELSE "locked")
    /\ UNCHANGED <<index, fs, last, clock>>

\* update_bucket_stats: the entry is set and persisted under the write lock,
\* and the call returns.
StoreStats(t) ==
    /\ procs[t].pc = "store"
    /\ LET c == procs[t].call
           out == store_bucket_stats(index, fs, c.bucket, procs[t].st)
       IN  /\ index' = out.index
           /\ fs' = out.fs
           /\ Return(t, IF c.op = "put_object"
                        THEN Result("Ok", NoBucket, CallMeta(c, clock), <<>>)
                        ELSE OkUnit)
    /\ lock' = WriteUnlocked(t)
    /\ UNCHANGED <<last, clock>>

\* create_bucket: Self::validate_bucket_name(name)?
CreateInvalid(t) ==
    /\ At(t, "create_bucket", "begin")
    /\ ~validate_bucket_name(procs[t].call.bucket)
    /\ Return(t, Err("InvalidBucketName"))
    /\ UNCHANGED <<index, fs, last, clock, lock>>

\* create_bucket, delete_bucket: the contains_key test under the write lock
LockedCheck(t) ==
    /\ procs[t].pc = "locked"
    /\ LET c == procs[t].call
           found == c.bucket \in DOMAIN index
       IN  IF c.op = "create_bucket" /\ found
           THEN Return(t, Err("BucketAlreadyExists")) /\ lock' = WriteUnlocked(t)
           ELSE IF c.op = "delete_bucket" /\ ~found
           THEN Return(t, Err("BucketNotFound")) /\ lock' = WriteUnlocked(t)
           ELSE Goto(t, IF c.op = "create_bucket" THEN "mkdirs" ELSE "count")
                /\ lock' = lock
    /\ UNCHANGED <<index, fs, last, clock>>

\* create_bucket: create_dir_all(objects)?, create_dir_all(.meta)?
CreateDirs(t) ==
    /\ At(t, "create_bucket", "mkdirs")
    /\ LET name == procs[t].call.bucket
           d1 == create_dir_all(fs, objects_root(name))
           d2 == create_dir_all(d1.fs, LexPath(<<name, MetaDir>>, FALSE))
       IN  IF d1.ok /\ d2.ok
           THEN fs' = d2.fs /\ Goto(t, "insert") /\ lock' = lock
           ELSE /\ fs' = (IF d1.ok THEN d2.fs ELSE d1.fs)
                /\ Return(t, Err("IoError"))
                /\ lock' = WriteUnlocked(t)
    /\ UNCHANGED <<index, last, clock>>

\* create_bucket: fs::write(&meta_path, json)?; buckets.insert(..)
CreateInsert(t) ==
    /\ At(t, "create_bucket", "insert")
    /\ LET c == procs[t].call
           bucket == Bucket(c.bucket, clock, c.region, 0, 0)
           w == write_file(fs, bucket_meta_path(c.bucket), JsonFile("bucket", bucket))
       IN  /\ fs' = w.fs
           /\ IF w.ok
              THEN /\ index' = [n \in DOMAIN index \cup {c.bucket} |->
                                   IF n = c.bucket THEN bucket ELSE index[n]]
                   /\ Return(t, Result("Ok", bucket, NoMeta, <<>>))
              ELSE index' = index /\ Return(t, Err("IoError"))
    /\ lock' = WriteUnlocked(t)
    /\ UNCHANGED <<last, clock>>

\* delete_bucket: the emptiness test of objects/
DeleteCount(t) ==
    /\ At(t, "delete_bucket", "count")
    /\ LET objects_dir == objects_root(procs[t].call.bucket)
           n == read_dir_count(fs, objects_dir)
       IN  IF path_exists(fs, objects_dir) /\ ~n.ok
           THEN Return(t, Err("IoError")) /\ lock' = WriteUnlocked(t)
           ELSE IF path_exists(fs, objects_dir) /\ n.count > 0
           THEN Return(t, Err("StorageError")) /\ lock' = WriteUnlocked(t)
           ELSE Goto(t, "rmtree") /\ lock' = lock
    /\ UNCHANGED <<index, fs, last, clock>>

\* delete_bucket: fs::remove_dir_all(bucket_path)?; buckets.remove(name)
DeleteTree(t) ==
    /\ At(t, "delete_bucket", "rmtree")
    /\ LET name == procs[t].call.bucket
           rm == remove_dir_all(fs, bucket_path(name))
       IN  /\ fs' = rm.fs
           /\ IF rm.ok
              THEN /\ index' = [n \in DOMAIN index \ {name} |-> index[n]]
                   /\ procs' = [Detached(DOMAIN fs \ DOMAIN rm.fs) EXCEPT
                                    ![t].pc = "done", ![t].call.res = OkUnit]
              ELSE index' = index /\ Return(t, Err("IoError"))
    /\ lock' = WriteUnlocked(t)
    /\ UNCHANGED <<last, clock>>

Step(t) ==
    \/ \E call \in ConcCalls : StartCall(t, call)
    \/ AcquireRead(t)
    \/ CheckBucket(t)
    \/ PutMkdir(t)
    \/ PutCreate(t)
    \/ PutWrite(t)
    \/ PutMetaDir(t)
    \/ PutMeta(t)
    \/ DelExists(t)
    \/ DelUnlink(t)
    \/ DelMetaExists(t)
    \/ DelMetaUnlink(t)
    \/ DelCleanup(t)
    \/ DelRmdir(t)
    \/ ScanStats(t)
    \/ AcquireWrite(t)
    \/ StoreStats(t)
    \/ CreateInvalid(t)
    \/ LockedCheck(t)
    \/ CreateDirs(t)
    \/ CreateInsert(t)
    \/ DeleteCount(t)
    \/ DeleteTree(t)

NextConc == \E t \in Tasks : Step(t)

SpecConc == InitConc /\ [][NextConc]_vars

\* get_bucket (and list_buckets, get_stats): the answer is taken from the
\* index under the read guard, which is dropped as the call returns.
GetLookup(t) ==
    /\ At(t, "get_bucket", "lookup")
    /\ lock' = ReadUnlocked(t)
    /\ Return(t, get_bucket(index, procs[t].call.bucket))
    /\ UNCHANGED <<index, fs, last, clock>>

\* The steps of a call that was started.
Run(t) ==
    \/ AcquireRead(t)
    \/ CheckBucket(t)
    \/ PutMkdir(t)
    \/ PutCreate(t)
    \/ PutWrite(t)
    \/ PutMetaDir(t)
    \/ PutMeta(t)
    \/ DelExists(t)
    \/ DelUnlink(t)
    \/ DelMetaExists(t)
    \/ DelMetaUnlink(t)
    \/ DelCleanup(t)
    \/ DelRmdir(t)
    \/ ScanStats(t)
    \/ AcquireWrite(t)
    \/ StoreStats(t)
    \/ CreateInvalid(t)
    \/ LockedCheck(t)
    \/ CreateDirs(t)
    \/ CreateInsert(t)
    \/ DeleteCount(t)
    \/ DeleteTree(t)
    \/ GetLookup(t)

\* Concurrent calls of every operation that takes the index lock, on one key,
\* started on an empty bucket or on one that stores the key "a/b".
LockCalls ==
    {Call("create_bucket", name, <<>>, NoInput, Local, Pending) : name \in {Bk1, BadName}}
    \cup {Call("delete_bucket", Bk1, <<>>, NoInput, <<>>, Pending),
          Call("put_object", Bk1, KeyAB, PutInput(<<8, 9>>, "image/png", {}), <<>>, Pending),
          Call("delete_object", Bk1, KeyAB, NoInput, <<>>, Pending),
          Call("get_bucket", Bk1, <<>>, NoInput, <<>>, Pending)}

InitLock == InitConc /\ index /= <<>>

NextLock == \E t \in Tasks : (\E call \in LockCalls : StartCall(t, call)) \/ Run(t)

\* Every thread that runs a call is scheduled, and the lock is fair: a call
\* that can take its next step, the acquisition of the lock included, takes
\* it in the end.
SpecLock == InitLock /\ [][NextLock]_vars /\ \A t \in Tasks : WF_vars(Run(t))

AllReturned == \A t \in Tasks : procs[t].pc = "done"

----------------------------------------------------------------------------
(* Properties of sequential execution.                                     *)

\* The objects a bucket stores: the regular files below its objects/.
StoredIn(f, bucket) == {p \in DataFiles(f) : p[1] = bucket}

StatsMatch(idx, f, bucket) ==
    /\ idx[bucket].object_count = Cardinality(StoredIn(f, bucket))
    /\ idx[bucket].total_size = SumSizes(f, StoredIn(f, bucket))

\* C1: in a sequential execution of createBucket, putObject, deleteObject and
\* deleteBucket, after every call each indexed bucket's objectCount is the
\* number of objects the bucket stores and its totalSize the sum of their sizes.
C1_StatsMatchStoredObjects ==
    \A bucket \in DOMAIN index : StatsMatch(index, fs, bucket)

QuotedSha256(bytes) == <<"\"", <<"sha256-hex", bytes>>, "\"">>

\* C7: after a successful putObject(bucket, key, b), getObject(bucket, key)
\* returns the bytes b, the size Len(b) and the etag "<hex SHA-256 of b>",
\* whatever was stored before; putting the same bytes again gives the same etag.
C7_PutThenGetReturnsPayload ==
    (last.op = "put_object" /\ last.res.err = "Ok") =>
        LET b == last.input.data
            got == get_object(index, fs, last.bucket, last.key, clock)
            again == put_object(index, fs, last.bucket, last.key, b,
                                last.input.content_type, last.input.metadata, clock)
        IN  /\ got.err = "Ok"
            /\ got.bytes = b
            /\ got.meta.size = Len(b)
            /\ got.meta.etag = QuotedSha256(b)
            /\ last.res.meta.etag = QuotedSha256(b)
            /\ again.res.err = "Ok"
            /\ again.res.meta.etag = last.res.meta.etag

\* C7's case: a two-byte payload was put under a nested key while another
\* object was stored, and getObject returns it.
C7_Witness ==
    /\ last.op = "put_object" /\ last.res.err = "Ok"
    /\ last.key = KeyAB
    /\ last.input.data = <<8, 9>>
    /\ Cardinality(DataFiles(fs)) = 2
    /\ get_object(index, fs, last.bucket, last.key, clock).bytes = <<8, 9>>

SameCounts(idx1, idx2) ==
    /\ DOMAIN idx1 = DOMAIN idx2
    /\ \A name \in DOMAIN idx1 :
           /\ idx1[name].region = idx2[name].region
           /\ idx1[name].object_count = idx2[name].object_count
           /\ idx1[name].total_size = idx2[name].total_size

\* C8: a new engine constructed on the same root has an index with the same
\* bucket names as the old one and, per name, the same region, objectCount
\* and totalSize.
C8_RestartKeepsIndex == [][last'.op = "new" => SameCounts(index, index')]_vars

\* C9: deleteBucket on an indexed bucket that stores an object fails with a
\* storage error and changes nothing: the index, the disk and what getObject
\* returns for every key are as before.
C9_DeleteNonEmptyBucketFails ==
    [][(/\ last'.op = "delete_bucket"
        /\ last'.bucket \in DOMAIN index
        /\ StoredIn(fs, last'.bucket) /= {})
       => /\ last'.res.err = "StorageError"
          /\ index' = index
          /\ fs' = fs
          /\ \A key \in Keys :
                 get_object(index', fs', last'.bucket, key, clock)
                     = get_object(index, fs, last'.bucket, key, clock)]_vars

\* C9's case: a deleteBucket was refused on a bucket that stores an object.
C9_Witness ==
    /\ last.op = "delete_bucket"
    /\ last.res.err = "StorageError"
    /\ last.bucket \in DOMAIN index
    /\ StoredIn(fs, last.bucket) /= {}
    /\ get_object(index, fs, last.bucket, KeyAB, clock).err = "Ok"

\* C10: createBucket on a name already in the index fails with
\* BucketAlreadyExists; the index (region, createdAt, objectCount, totalSize of
\* the existing descriptor) and the disk are as before.
C10_CreateExistingBucketFails ==
    [][(last'.op = "create_bucket" /\ last'.bucket \in DOMAIN index)
       => /\ last'.res.err = "BucketAlreadyExists"
          /\ index' = index
          /\ fs' = fs]_vars

\* C10's case: a second createBucket, with another region and at a later
\* time, was refused on a bucket that stores an object.
C10_Witness ==
    /\ last.op = "create_bucket"
    /\ last.res.err = "BucketAlreadyExists"
    /\ index[last.bucket].region /= last.region
    /\ index[last.bucket].created_at < clock
    /\ index[last.bucket].object_count > 0
    /\ StoredIn(fs, last.bucket) /= {}

\* C11: a createBucket that fails with InvalidBucketName and a putObject that
\* fails with InvalidObjectKey leave the index and the disk exactly as they
\* were.
C11_ValidationFailureChangesNothing ==
    [][(\/ last'.op = "create_bucket" /\ last'.res.err = "InvalidBucketName"
        \/ last'.op = "put_object" /\ last'.res.err = "InvalidObjectKey")
       => index' = index /\ fs' = fs]_vars

\* C11's case: a put with a key one byte too long was refused on a bucket that
\* stores an object.
C11_Witness ==
    /\ last.op = "put_object"
    /\ last.res.err = "InvalidObjectKey"
    /\ last.key = LongKey
    /\ StoredIn(fs, last.bucket) /= {}

\* The names C12 describes: 3 to 63 characters, each of a-z, 0-9, '-' or '.',
\* neither the first nor the last a '-'.
AcceptedName(name) ==
    /\ Len(name) >= 3 /\ Len(name) <= 63
    /\ \A i \in 1..Len(name) : name[i] \in LowerCase \cup Digits \cup {"-", "."}
    /\ name[1] /= "-"
    /\ name[Len(name)] /= "-"

\* C12: validate_bucket_name accepts a name exactly if it has 3 to 63
\* characters, all of a-z, 0-9, '-' and '.', and neither starts nor ends with
\* '-'; createBucket fails with InvalidBucketName on exactly the other names.
C12_NameValidation ==
    last.op = "create_bucket" =>
        /\ validate_bucket_name(last.bucket) <=> AcceptedName(last.bucket)
        /\ last.res.err = "InvalidBucketName" <=> ~AcceptedName(last.bucket)
        /\ last.res.err = "Ok" <=> AcceptedName(last.bucket)

\* C12's case: a name of the greatest length, starting with '.' and ending
\* with a digit, was accepted.
C12_Witness ==
    /\ last.op = "create_bucket"
    /\ last.res.err = "Ok"
    /\ Len(last.bucket) = MaxBucketNameLen
    /\ last.bucket[1] = "."
    /\ last.bucket[Len(last.bucket)] = "9"
    /\ last.bucket \in DOMAIN index

\* C13: createBucket(name, region) with a valid name that is not in the index
\* succeeds, and getBucket(name) then returns a descriptor with that name,
\* that region, objectCount 0 and totalSize 0; getBucket on a name that is
\* not in the index fails with BucketNotFound.
C13_CreateThenGetBucket ==
    /\ [](\A name \in {Bk1, Bk2, DotB2, BadName} \ DOMAIN index :
              get_bucket(index, name).err = "BucketNotFound")
    /\ [][(/\ last'.op = "create_bucket"
            /\ validate_bucket_name(last'.bucket)
            /\ last'.bucket \notin DOMAIN index)
           => LET got == get_bucket(index', last'.bucket)
              IN  /\ last'.res.err = "Ok"
                  /\ got.err = "Ok"
                  /\ got.bucket.name = last'.bucket
                  /\ got.bucket.region = last'.region
                  /\ got.bucket.object_count = 0
                  /\ got.bucket.total_size = 0]_vars

\* An object is stored under the key: its data file is a regular file.
ObjectStored(f, bucket, key) ==
    LET r == Resolve(f, object_path(bucket, key))
    IN  r.ok /\ ~NamesDirectory(key) /\ IsFile(f, r.path)

\* C14: getObject and deleteObject fail with BucketNotFound when the bucket
\* is not in the index, and with ObjectNotFound on an indexed bucket for every
\* key under which no object is stored, a key that is only a directory-like
\* prefix of stored keys included.
C14_MissingObjectErrors ==
    \A bucket \in {Bk1, Bk2}, key \in {KeyA, KeyAB} :
        LET got == get_object(index, fs, bucket, key, clock)
            del == delete_object(index, fs, bucket, key).res
        IN  /\ bucket \notin DOMAIN index
                => got.err = "BucketNotFound" /\ del.err = "BucketNotFound"
            /\ (bucket \in DOMAIN index /\ ~ObjectStored(fs, bucket, key))
                => got.err = "ObjectNotFound" /\ del.err = "ObjectNotFound"

\* C15: after sequential putObject and deleteObject calls, every indexed
\* bucket's objects/ directory exists and no directory below it is empty.
C15_NoEmptyDirectories ==
    \A bucket \in DOMAIN index :
        /\ IsDir(fs, <<bucket, ObjectsDir>>)
        /\ \A p \in DOMAIN fs :
               (IsUnder(p, <<bucket, ObjectsDir>>) /\ IsDir(fs, p))
                   => Children(fs, p) /= {}

\* What a listing returned: the keys of its objects and its common prefixes.
ListedKeys(res) == {res.objects[i].key : i \in 1..Len(res.objects)}
ListedPrefixes(res) == {res.common_prefixes[i] : i \in 1..Len(res.common_prefixes)}
\* The keys stored in a bucket: the relative paths of the files below its
\* objects/.
StoredKeys(f, bucket) == {RelKey(p) : p \in StoredIn(f, bucket)}
Remainder(k, prefix) == SubSeq(k, Len(prefix) + 1, Len(k))
HasDelimiter(k, prefix, delimiter) ==
    delimiter.some /\ \E pos \in 0..(Len(Remainder(k, prefix)) - Len(delimiter.val)) :
        SubSeq(Remainder(k, prefix), pos + 1, pos + Len(delimiter.val)) = delimiter.val
FirstDelimiter(k, prefix, delimiter) ==
    Min({pos \in 0..(Len(Remainder(k, prefix)) - Len(delimiter.val)) :
            SubSeq(Remainder(k, prefix), pos + 1, pos + Len(delimiter.val)) = delimiter.val})
FoldedPrefix(k, prefix, delimiter) ==
    prefix \o SubSeq(Remainder(k, prefix), 1, FirstDelimiter(k, prefix, delimiter))
           \o delimiter.val

\* C16: when maxKeys is at least the number of stored objects, a stored key
\* is in the object list exactly if it starts with the prefix and its
\* remainder holds no delimiter; a stored key that starts with the prefix and
\* whose remainder holds the delimiter gives the common prefix made of the
\* prefix, the remainder before the first delimiter and the delimiter; nothing
\* else is listed.
C16_ListFoldsKeys ==
    (/\ last.op = "list_objects"
     /\ last.res.err = "Ok"
     /\ last.input.max_keys >= Cardinality(StoredKeys(fs, last.bucket)))
    => LET prefix == last.input.prefix
           delimiter == last.input.delimiter
           matching == {k \in StoredKeys(fs, last.bucket) : StartsWith(k, prefix)}
           folded == {k \in matching : HasDelimiter(k, prefix, delimiter)}
       IN  /\ ListedKeys(last.res) = matching \ folded
           /\ ListedPrefixes(last.res) = {FoldedPrefix(k, prefix, delimiter) : k \in folded}

\* The stored keys a listing gives as objects: those that start with the
\* prefix and whose remainder holds no delimiter.
LeafKeys(f, bucket, prefix, delimiter) ==
    {k \in StoredKeys(f, bucket) :
        StartsWith(k, prefix) /\ ~HasDelimiter(k, prefix, delimiter)}
KeysOf(objects) == [i \in 1..Len(objects) |-> objects[i].key]

\* C17: listObjects returns min(maxKeys, n) objects, n being the number of
\* matching leaf objects; they are the first of all n in ascending byte order
\* of key; isTruncated is true exactly if n > maxKeys, also for maxKeys = 0.
C17_ListTruncation ==
    (last.op = "list_objects" /\ last.res.err = "Ok")
    => LET in == last.input
           n == Cardinality(LeafKeys(fs, last.bucket, in.prefix, in.delimiter))
           all == list_objects(index, fs, last.bucket, in.prefix, in.delimiter, n, clock)
           got == last.res.objects
       IN  /\ Len(all.objects) = n
           /\ \A i \in 1..n, j \in 1..n :
                  i < j => ~StrLess(all.objects[j].key, all.objects[i].key)
           /\ Len(got) = IF in.max_keys < n THEN in.max_keys ELSE n
           /\ KeysOf(got) = SubSeq(KeysOf(all.objects), 1, Len(got))
           /\ last.res.is_truncated <=> n > in.max_keys

\* C17's case: a listing with maxKeys 1 of three matching objects returned
\* one object and isTruncated.
C17_Witness ==
    /\ last.op = "list_objects"
    /\ last.input.max_keys = 1
    /\ Cardinality(LeafKeys(fs, last.bucket, last.input.prefix, last.input.delimiter)) = 3
    /\ Len(last.res.objects) = 1
    /\ last.res.is_truncated

Bare(f, bucket, key) ==
    ObjectStored(f, bucket, key) /\ ~path_exists(f, object_meta_path(bucket, key))

C19_PutReplaces ==
    [][(/\ last'.op = "put_object"
        /\ last'.res.err = "Ok"
        /\ ObjectStored(fs, last'.bucket, last'.key))
       => LET in == last'.input
              old == get_object(index, fs, last'.bucket, last'.key, clock)
              got == get_object(index', fs', last'.bucket, last'.key, clock')
          IN  /\ got.err = "Ok"
              /\ got.bytes = in.data
              /\ got.meta.size = Len(in.data)
              /\ got.meta.etag = QuotedSha256(in.data)
              /\ got.meta.content_type = ContentTypeFor(last'.key, in.content_type)
              /\ got.meta.metadata = in.metadata
              /\ index'[last'.bucket].object_count = index[last'.bucket].object_count
              /\ index'[last'.bucket].total_size
                     = index[last'.bucket].total_size - Len(old.bytes) + Len(in.data)]_vars

----------------------------------------------------------------------------
(* Properties of concurrent execution.                                     *)

CallsAre(ops) == {procs[t].call.op : t \in Tasks} = ops
Succeeded(t) == procs[t].call.res.err = "Ok"

\* C2: once concurrent putObject and deleteObject calls on a bucket have all
\* returned, the bucket's indexed objectCount and totalSize are the number
\* and the total size of the objects on disk.
C2_StatsMatchAfterConcurrentCalls ==
    (/\ AllReturned
     /\ \A t \in Tasks : procs[t].call.op \in {"put_object", "delete_object"}
     /\ Bk1 \in DOMAIN index)
    => StatsMatch(index, fs, Bk1)

\* C3: when deleteBucket(b) and putObject(b, k, bytes) on an indexed, empty
\* bucket b have both returned, at most one of them has succeeded, and b is in
\* the index exactly if its directory exists on disk.
C3_DeleteBucketExcludesPut ==
    (/\ AllReturned
     /\ last.op = "create_bucket"
     /\ CallsAre({"delete_bucket", "put_object"}))
    => /\ ~(\A t \in Tasks : Succeeded(t))
       /\ Bk1 \in DOMAIN index <=> <<Bk1>> \in DOMAIN fs

\* C4: when concurrent createBucket calls with the same valid name, absent
\* from the index, have all returned, exactly one has succeeded, every other
\* one has failed with BucketAlreadyExists, and the index holds the name with
\* the region of the successful call.
C4_OneCreateBucketWins ==
    (/\ AllReturned
     /\ last.op = "new"
     /\ \A t \in Tasks : procs[t].call.op = "create_bucket" /\ procs[t].call.bucket = Bk1)
    => \E w \in Tasks :
           /\ Succeeded(w)
           /\ \A t \in Tasks \ {w} : procs[t].call.res.err = "BucketAlreadyExists"
           /\ Bk1 \in DOMAIN index
           /\ index[Bk1].region = procs[w].call.region
           /\ index[Bk1] = procs[w].call.res.bucket

\* C4's case: createBucket calls with different regions have all returned.
C4_Witness ==
    /\ AllReturned
    /\ last.op = "new"
    /\ \A t \in Tasks : procs[t].call.op = "create_bucket" /\ procs[t].call.bucket = Bk1
    /\ procs[1].call.region /= procs[2].call.region
    /\ procs[2].call.res.err = "Ok"
    /\ procs[1].call.res.err = "BucketAlreadyExists"

\* C5: when two putObject calls on the same key with different payloads have
\* both returned, the stored bytes and the stored size and etag are those of
\* one of the two calls: getObject returns bytes whose quoted SHA-256 is the
\* etag it returns.
C5_ConcurrentPutsOneWinner ==
    (/\ AllReturned
     /\ \A t \in Tasks : procs[t].call.op = "put_object" /\ Succeeded(t)
     /\ procs[1].call.key = procs[2].call.key
     /\ procs[1].call.input.data /= procs[2].call.input.data)
    => LET got == get_object(index, fs, Bk1, procs[1].call.key, clock)
       IN  /\ got.err = "Ok"
           /\ got.meta.etag = QuotedSha256(got.bytes)
           /\ \E t \in Tasks :
                  /\ got.bytes = procs[t].call.input.data
                  /\ got.meta.size = Len(procs[t].call.input.data)
                  /\ got.meta.etag = QuotedSha256(procs[t].call.input.data)

\* C6: whenever no call is in flight, no object metadata file exists whose
\* object data file does not exist.
C6_NoMetadataWithoutData ==
    (\A t \in Tasks : procs[t].pc \in {"idle", "done"})
    => \A bucket \in {Bk1, Bk2, DotB2}, key \in Keys \cup ConcKeys :
           path_exists(fs, object_meta_path(bucket, key))
               => path_exists(fs, object_path(bucket, key))

----------------------------------------------------------------------------
(* Properties of malformed metadata, the bucket descriptor file, start-up, *)
(* bucket listing and statistics.                                          *)

\* The metadata file of the key exists and does not hold an object descriptor.
Malformed(f, bucket, key) ==
    LET json == read_file(f, object_meta_path(bucket, key))
    IN  /\ path_exists(f, object_meta_path(bucket, key))
        /\ json.ok
        /\ json.node.fmt /= "object"

\* C21: when the metadata file of a stored object is not valid metadata JSON,
\* getObject on that key fails with StorageError, and a successful listObjects
\* over a range containing that key holds an entry for it.
C21_MalformedMetadataReported ==
    \A key \in StoredKeys(fs, Bk1) :
        (Bk1 \in DOMAIN index /\ Malformed(fs, Bk1, key))
        => /\ get_object(index, fs, Bk1, key, clock).err = "StorageError"
           /\ (/\ last.op = "list_objects"
               /\ last.res.err = "Ok"
               /\ last.input.max_keys >= Cardinality(StoredKeys(fs, Bk1))
               /\ StartsWith(key, last.input.prefix)
               /\ ~HasDelimiter(key, last.input.prefix, last.input.delimiter))
              => key \in ListedKeys(last.res)

\* The bucket's .bucket_meta.json holds the descriptor of its index entry.
Persisted(idx, f, bucket) ==
    LET json == read_file(f, bucket_meta_path(bucket))
    IN  /\ json.ok
        /\ json.node.fmt = "bucket"
        /\ json.node.val = idx[bucket]

\* C22: after a createBucket, putObject or deleteObject has returned, and
\* once concurrent calls have all returned, the .bucket_meta.json of the
\* call's bucket holds the name, region, createdAt, objectCount and totalSize
\* of the bucket's index entry.
C22_DescriptorFileMatchesIndex ==
    /\ (/\ last.op \in {"create_bucket", "put_object", "delete_object"}
        /\ \A t \in Tasks : procs[t].pc = "idle"
        /\ last.bucket \in DOMAIN index)
       => Persisted(index, fs, last.bucket)
    /\ AllReturned
       => \A t \in Tasks :
              procs[t].call.bucket \in DOMAIN index
                  => Persisted(index, fs, procs[t].call.bucket)

\* The names of the immediate subdirectories of the root that do not start
\* with '.'.
VisibleDirs(f) == {p[1] : p \in {q \in DOMAIN f : Len(q) = 1 /\ f[q].kind = "dir"
                                                     /\ q[1][1] /= "."}}

\* C23: after initialize the index holds one entry for each immediate
\* subdirectory of the root whose name does not start with '.', and no other;
\* where the directory held a parseable .bucket_meta.json the entry is that
\* descriptor, and where it held none the entry has the directory's name,
\* region "local" and zero counts, and is written to .bucket_meta.json.
C23_InitializeScansRoot ==
    [][last'.op = "new" =>
          /\ DOMAIN index' = VisibleDirs(fs)
          /\ \A name \in VisibleDirs(fs) :
                 LET file == <<name, BucketMetaFile>>
                 IN  /\ (file \in DOMAIN fs /\ fs[file].fmt = "bucket")
                            => index'[name] = fs[file].val
                     /\ file \notin DOMAIN fs
                            => /\ index'[name].name = name
                               /\ index'[name].region = Local
                               /\ index'[name].object_count = 0
                               /\ index'[name].total_size = 0
                               /\ fs'[file] = JsonFile("bucket", index'[name])]_vars

\* C23's case: a restart found a hidden directory in the root and did not
\* index it, and found a directory without descriptor file, indexed it with
\* the time of the restart and wrote its descriptor file.
C23_Witness ==
    /\ last.op = "new"
    /\ IsDir(fs, <<DotB2>>)
    /\ DotB2 \notin DOMAIN index
    /\ Bk1 \in DOMAIN index
    /\ Bk2 \in DOMAIN index
    /\ index[Bk2].created_at > index[Bk1].created_at
    /\ IsFile(fs, <<Bk2, BucketMetaFile>>)
    /\ fs[<<Bk2, BucketMetaFile>>].val = index[Bk2]

\* C24: listBuckets returns the descriptor of every bucket in the index and
\* nothing else, each once, in strictly ascending byte order of name.
C24_ListBucketsSorted ==
    last.op = "list_buckets"
    => LET buckets == last.res.buckets
       IN  /\ Len(buckets) = Cardinality(DOMAIN index)
           /\ {buckets[i] : i \in 1..Len(buckets)} = {index[n] : n \in DOMAIN index}
           /\ \A i \in 1..(Len(buckets) - 1) : StrLess(buckets[i].name, buckets[i + 1].name)

\* C24's case: after createBucket and deleteBucket calls four buckets are
\* listed, "b-k" first, "bk10" before "bk2".
C24_Witness ==
    /\ last.op = "list_buckets"
    /\ Len(last.res.buckets) = 4
    /\ last.res.buckets[1].name = <<"b", "-", "k">>
    /\ last.res.buckets[3].name = Bk1 \o <<"0">>
    /\ last.res.buckets[4].name = Bk2
    /\ last.res.buckets[1].created_at > last.res.buckets[4].created_at

\* The number a string of decimal digits stands for.
RECURSIVE ParseDecimal(_)
ParseDecimal(s) ==
    IF s = <<>> THEN 0
    ELSE 10 * ParseDecimal(SubSeq(s, 1, Len(s) - 1)) + CharCode(s[Len(s)]) - CharCode("0")

\* A plain decimal integer: digits, without leading zeros.
IsDecimal(s) ==
    /\ s /= <<>>
    /\ \A i \in 1..Len(s) : s[i] \in Digits
    /\ Len(s) > 1 => s[1] /= "0"

\* The unit the byte count is to be shown in: 0 (B) below 1024, else the
\* largest u in 1..5 with 1024^u <= bytes.
UnitFor(bytes) ==
    IF \A j \in 2..NumLimbs : bytes[j] = 0 THEN 0
    ELSE CHOOSE u \in 1..MaxUnit :
             /\ \E j \in (u + 1)..NumLimbs : bytes[j] /= 0
             /\ u < MaxUnit => \A j \in (u + 2)..NumLimbs : bytes[j] = 0

\* C28: human_readable_size(bytes) is the plain integer and " B" when bytes <
\* 1024; otherwise it is bytes / 1024^u with two decimal places and the uth
\* unit, u the largest of 1..5 with 1024^u <= bytes: the number shown is
\* bytes / 1024^u rounded down or up in the second place, and the nearer of
\* the two when bytes is below 2^53.
C28_HumanReadableSize ==
    last.op = "human_readable_size"
    => LET bytes == last.input
           text == last.res.text
           space == CHOOSE i \in 1..Len(text) : text[i] = " "
           number == SubSeq(text, 1, space - 1)
           u == UnitFor(bytes)
           whole == SubSeq(number, 1, Len(number) - 3)
           places == SubSeq(number, Len(number) - 1, Len(number))
           shown == 100 * ParseDecimal(whole) + ParseDecimal(places)
           p == TimesHundred(bytes)
           floor == Above(p, u)
           nearest_below == p[u] < LimbBase \div 2
                            \/ (p[u] = LimbBase \div 2 /\ \A j \in 1..(u - 1) : p[j] = 0)
           nearest_above == p[u] >= LimbBase \div 2
       IN  /\ Cardinality({i \in 1..Len(text) : text[i] = " "}) = 1
           /\ SubSeq(text, space + 1, Len(text)) = Units[u + 1]
           /\ u = 0 => IsDecimal(number) /\ ParseDecimal(number) = bytes[1]
           /\ u > 0 =>
                  /\ Len(number) >= 4
                  /\ number[Len(number) - 2] = "."
                  /\ IsDecimal(whole)
                  /\ \A i \in 1..2 : places[i] \in Digits
                  /\ \/ shown = floor
                     \/ shown = floor + 1 /\ \E j \in 1..u : p[j] /= 0
                  /\ (bytes[NumLimbs] = 0 /\ bytes[NumLimbs - 1] < 8)
                         => /\ shown = floor => nearest_below
                            /\ shown = floor + 1 => nearest_above

\* C28's case: 1536 bytes are shown as "1.50 KB".
C28_Witness ==
    /\ last.op = "human_readable_size"
    /\ last.input = LimbsOf(1536)
    /\ last.res.text = <<"1", ".", "5", "0", " ", "K", "B">>

\* The sum of f(n) over the names n of S.
RECURSIVE Total(_, _)
Total(f, S) ==
    IF S = {} THEN 0
    ELSE LET n == CHOOSE m \in S : TRUE IN f[n] + Total(f, S \ {n})

\* C25: getStats returns the number of indexed buckets, the sum of their
\* objectCount and the sum of their totalSize; and when a putObject is
\* followed by the deleteObject of that object, the only one the bucket
\* stores, the bucket then counts no object and no byte.
C25_StatsAggregateIndex ==
    /\ [](last.op = "get_stats"
          => /\ last.res.stats.total_buckets = Cardinality(DOMAIN index)
             /\ last.res.stats.total_objects
                    = Total([n \in DOMAIN index |-> index[n].object_count], DOMAIN index)
             /\ last.res.stats.total_size
                    = Total([n \in DOMAIN index |-> index[n].total_size], DOMAIN index))
    /\ [][(/\ last.op = "put_object" /\ last.res.err = "Ok"
           /\ last'.op = "delete_object" /\ last'.res.err = "Ok"
           /\ last'.bucket = last.bucket /\ last'.key = last.key
           /\ StoredIn(fs, last.bucket)
                  = {Resolve(fs, object_path(last.bucket, last.key)).path})
          => LET without == [n \in DOMAIN index' \ {last.bucket} |-> index'[n]]
             IN  /\ index'[last.bucket].object_count = 0
                 /\ index'[last.bucket].total_size = 0
                 /\ get_stats(index').total_objects = get_stats(without).total_objects
                 /\ get_stats(index').total_size = get_stats(without).total_size]_vars

\* C25's case: statistics over two buckets that hold an object of two bytes
\* each.
C25_Witness ==
    /\ last.op = "get_stats"
    /\ last.res.stats.total_buckets = 2
    /\ last.res.stats.total_objects = 2
    /\ last.res.stats.total_size = 4
    /\ index[Bk1].object_count = 1
    /\ index[Bk2].object_count = 1

\* The keys drawn by the sequential specifications.
DrawnKeys == Keys \cup ErrKeys \cup DotDotKeys \cup ListKeys \cup IntoMetaKeys

\* C26: after a successful deleteObject(bucket, key) the key's data file and
\* metadata file do not exist and getObject(bucket, key) fails with
\* ObjectNotFound; and deleteObject succeeds on an object whose metadata file
\* is missing.
C26_DeleteRemovesObject ==
    /\ (last.op = "delete_object" /\ last.res.err = "Ok")
       => /\ ~path_exists(fs, object_path(last.bucket, last.key))
          /\ ~path_exists(fs, object_meta_path(last.bucket, last.key))
          /\ get_object(index, fs, last.bucket, last.key, clock).err = "ObjectNotFound"
    /\ \A bucket \in DOMAIN index, key \in DrawnKeys :
           Bare(fs, bucket, key) => delete_object(index, fs, bucket, key).res.err = "Ok"

\* The descriptors of the buckets other than name are the same in both.
OthersUnchanged(idx1, idx2, name) ==
    \A n \in (DOMAIN idx1 \cup DOMAIN idx2) \ {name} :
        n \in DOMAIN idx1 /\ n \in DOMAIN idx2 /\ idx1[n] = idx2[n]

\* C27: a successful createBucket adds its name to the index and a successful
\* deleteBucket removes its name, and only of a bucket that stores no object,
\* both leaving the other buckets' descriptors as they were; except for
\* initialize, no other call, and no failed call, adds or removes a name.
C27_IndexChangesOnlyByBucketCalls ==
    [][LET call == last'
       IN  IF call.op = "new" THEN TRUE
           ELSE IF call.op = "create_bucket" /\ call.res.err = "Ok"
           THEN /\ DOMAIN index' = DOMAIN index \cup {call.bucket}
                /\ OthersUnchanged(index, index', call.bucket)
           ELSE IF call.op = "delete_bucket" /\ call.res.err = "Ok"
           THEN /\ call.bucket \in DOMAIN index
                /\ DOMAIN index' = DOMAIN index \ {call.bucket}
                /\ StoredIn(fs, call.bucket) = {}
                /\ OthersUnchanged(index, index', call.bucket)
           ELSE IF call.op \in {"create_bucket", "delete_bucket"}
           THEN index' = index
           ELSE DOMAIN index' = DOMAIN index]_vars

\* C27's case: a deleteBucket removed one of two buckets and the other, which
\* stores an object, kept its descriptor.
C27_Witness ==
    /\ last.op = "delete_bucket"
    /\ last.res.err = "Ok"
    /\ last.bucket = Bk1
    /\ DOMAIN index = {Bk2}
    /\ index[Bk2].object_count = 1

\* C29: putObject on a bucket that is not in the index fails with
\* BucketNotFound whatever the key; on an indexed bucket it fails with
\* InvalidObjectKey when the key is empty or longer than 1024 bytes, and with
\* neither error when the key has 1 to 1024 bytes.
C29_PutChecksBucketThenKey ==
    last.op = "put_object"
    => IF last.bucket \notin DOMAIN index THEN last.res.err = "BucketNotFound"
       ELSE IF last.key = <<>> \/ Len(last.key) > MaxKeyLen
       THEN last.res.err = "InvalidObjectKey"
       ELSE last.res.err \notin {"BucketNotFound", "InvalidObjectKey"}

\* C29's case: a put with a key of exactly 1024 bytes passed the validation.
C29_Witness ==
    /\ last.op = "put_object"
    /\ last.bucket \in DOMAIN index
    /\ Len(last.key) = MaxKeyLen
    /\ last.res.err \notin {"BucketNotFound", "InvalidObjectKey"}

\* What getObject returns, but for the time of a stored descriptor.
Served(idx, f, bucket, key, now) ==
    LET got == get_object(idx, f, bucket, key, now)
    IN  [err |-> got.err, bytes |-> got.bytes, key |-> got.meta.key,
         size |-> got.meta.size, etag |-> got.meta.etag,
         content_type |-> got.meta.content_type, metadata |-> got.meta.metadata]

\* C30: a successful putObject or deleteObject on a key leaves what getObject
\* returns for every other key of the bucket (its bytes, key, size, etag,
\* content type and metadata, or ObjectNotFound) as it was.
C30_KeysAreIsolated ==
    [][(last'.op \in {"put_object", "delete_object"} /\ last'.res.err = "Ok")
       => \A other \in ListKeys \ {last'.key} :
              Served(index', fs', last'.bucket, other, clock)
                  = Served(index, fs, last'.bucket, other, clock)]_vars

\* The paths whose node differs between two trees: made, removed or rewritten.
Changed(f1, f2) ==
    {p \in DOMAIN f1 \cup DOMAIN f2 :
        p \notin DOMAIN f1 \/ p \notin DOMAIN f2 \/ f1[p] /= f2[p]}

\* The paths an object call on the bucket may use: below its objects/ and
\* .meta/, and its descriptor file.
Owned(bucket, p) ==
    \/ IsUnder(p, <<bucket, ObjectsDir>>)
    \/ IsUnder(p, <<bucket, MetaDir>>)
    \/ p = <<bucket, BucketMetaFile>>

\* C31: putObject, getObject and deleteObject on (bucket, key), for every key
\* that passes key validation, create, change and remove only paths below the
\* bucket's objects/ and .meta/ and its descriptor file, and a successful
\* getObject reads its bytes from a file below the bucket's objects/.
C31_ObjectCallsStayInBucket ==
    [][last'.op \in {"put_object", "get_object", "delete_object"}
       => /\ \A p \in Changed(fs, fs') : Owned(last'.bucket, p)
          /\ (last'.op = "get_object" /\ last'.res.err = "Ok")
             => IsUnder(Resolve(fs, object_path(last'.bucket, last'.key)).path,
                        <<last'.bucket, ObjectsDir>>)]_vars

\* A putObject and a deleteObject on different keys run side by side, and no
\* other call does.
PutBesideDelete(p, d) ==
    /\ procs[p].call.op = "put_object"
    /\ procs[d].call.op = "delete_object"
    /\ \A t \in Tasks \ {p, d} : procs[t].pc = "idle"
    /\ procs[p].call.bucket = procs[d].call.bucket
    /\ procs[p].call.key /= procs[d].call.key

\* C32: when putObject(b, k1, bytes) and deleteObject(b, k2), k1 /= k2 with
\* files in one directory, run concurrently, then once both have returned
\* either the put returned an error or getObject(b, k1) returns the put bytes;
\* and no step of the two calls removes a directory that holds a file or
\* removes the data file of k1 once it is made.
C32_CleanupKeepsConcurrentPut ==
    /\ [](\A p \in Tasks, d \in Tasks :
              (AllReturned /\ PutBesideDelete(p, d) /\ Succeeded(p))
              => LET c == procs[p].call
                     got == get_object(index, fs, c.bucket, c.key, clock)
                 IN  got.err = "Ok" /\ got.bytes = c.input.data)
    /\ [][\A p \in Tasks, d \in Tasks :
              PutBesideDelete(p, d)
              => \A gone \in DOMAIN fs \ DOMAIN fs' :
                     /\ IsDir(fs, gone) => FilesUnder(fs, gone) = {}
                     /\ gone /= Resolve(fs, object_path(procs[p].call.bucket,
                                                        procs[p].call.key)).path]_vars

\* C32's case: deleteObject("a/b") found objects/a empty and is about to
\* remove it, while putObject("a/c") has made its file there since.
C32_Witness ==
    \E p \in Tasks, d \in Tasks :
        /\ PutBesideDelete(p, d)
        /\ procs[d].pc = "rmdir"
        /\ procs[d].cur = ParentOf(object_path(Bk1, KeyAB))
        /\ procs[p].pc \in {"write", "metadir", "meta", "scan", "wlock", "store", "done"}
        /\ IsFile(fs, <<Bk1, ObjectsDir, <<"a">>, <<"c">>>>)

\* C33: deleteBucket on an indexed bucket succeeds exactly when the bucket
\* stores no object, which is when its objectCount is 0; after it succeeded
\* getBucket fails with BucketNotFound and the bucket's directory is gone.
C33_DeleteBucketIffEmpty ==
    [][(last'.op = "delete_bucket" /\ last'.bucket \in DOMAIN index)
       => /\ last'.res.err = "Ok" <=> StoredIn(fs, last'.bucket) = {}
          /\ last'.res.err = "Ok" <=> index[last'.bucket].object_count = 0
          /\ last'.res.err = "Ok"
             => /\ get_bucket(index', last'.bucket).err = "BucketNotFound"
                /\ ~path_exists(fs', bucket_path(last'.bucket))]_vars

\* C34: for every indexed bucket, listObjects with the empty prefix, no
\* delimiter and maxKeys at least the bucket's objectCount returns objectCount
\* entries with pairwise distinct keys, the keys of the stored objects, and
\* getObject on each entry's key succeeds with the entry's size and etag.
C34_ListingMatchesObjectCount ==
    \A bucket \in DOMAIN index :
        LET n == index[bucket].object_count
        IN  \A max_keys \in {n, n + 1} :
                LET res == list_objects(index, fs, bucket, <<>>, NoDelimiter, max_keys, clock)
                    keys == KeysOf(res.objects)
                IN  /\ res.err = "Ok"
                    /\ Len(res.objects) = n
                    /\ \A i \in 1..Len(keys), j \in 1..Len(keys) : i /= j => keys[i] /= keys[j]
                    /\ {keys[i] : i \in 1..Len(keys)} = StoredKeys(fs, bucket)
                    /\ \A i \in 1..Len(keys) :
                           LET got == get_object(index, fs, bucket, keys[i], clock)
                           IN  /\ got.err = "Ok"
                               /\ got.meta.size = res.objects[i].size
                               /\ got.meta.etag = res.objects[i].etag

\* What is on disk at and below the bucket's directory.
TreeOf(f, bucket) ==
    LET inside == {p \in DOMAIN f : p = <<bucket>> \/ IsUnder(p, <<bucket>>)}
    IN  [p \in inside |-> f[p]]

\* C35: a putObject that returns an error, whichever, leaves the bucket's
\* directory tree (its stored objects, their metadata and its directories)
\* and its indexed descriptor, objectCount and totalSize included, exactly as
\* they were before the call.
C35_FailedPutChangesNothing ==
    [][(last'.op = "put_object" /\ last'.res.err /= "Ok")
       => /\ TreeOf(fs', last'.bucket) = TreeOf(fs, last'.bucket)
          /\ index' = index]_vars

\* The positions at which a call asks for the index lock.
AsksForLock(t) ==
    \/ procs[t].pc = "wlock"
    \/ procs[t].pc = "begin" /\ procs[t].call.op /= "create_bucket"
    \/ procs[t].pc = "begin" /\ validate_bucket_name(procs[t].call.bucket)

HoldsLock(t) == lock.writer = t \/ t \in lock.readers

\* The positions inside the sections of code that hold a guard of the lock.
ReadSections == {"check", "lookup"}
WriteSections == {"store", "locked", "mkdirs", "insert", "count", "rmtree"}

\* C36: no call asks for the index lock while it holds it; a call holds the
\* lock only inside its guarded sections, so not after it returned and, in
\* putObject and deleteObject, not between the bucket test and the stat
\* refresh; hence, with fair scheduling and a fair lock, every call that was
\* started returns.
C36_CallsTerminate ==
    /\ [](\A t \in Tasks :
              /\ AsksForLock(t) => ~HoldsLock(t)
              /\ t \in lock.readers => procs[t].pc \in ReadSections
              /\ lock.writer = t => procs[t].pc \in WriteSections
              /\ lock.writer /= 0 => lock.readers = {})
    /\ \A t \in Tasks : (procs[t].pc /= "idle") ~> (procs[t].pc = "done")

\* C36's case: a call holds the write lock in update_bucket_stats while
\* another waits for it, having released its read lock.
C36_Witness ==
    \E t \in Tasks, u \in Tasks :
        /\ procs[t].pc = "store" /\ lock.writer = t
        /\ procs[u].pc = "wlock" /\ ~HoldsLock(u)
        /\ procs[t].call.op = "put_object"
        /\ procs[u].call.op = "delete_object"

====
